---- MODULE Spec2Model ----
(***************************************************************************)
(* Warehouse simulation core of dwani-ai/talk: the world state store       *)
(* (agents/warehouse/state_store.py), the command executor and the         *)
(* post-condition verifier (agents/warehouse/commands.py), the HTTP        *)
(* command endpoint (agents/service_main.py), and callers running the      *)
(* executor concurrently against the store's mutex.                        *)
(*                                                                         *)
(* Lengths are counted in halves of a warehouse unit: the executor only    *)
(* ever produces coordinates that are inputs, inputs +/- 5.0, or           *)
(* 0.5 * (level + 1), so with inputs on the half-unit grid every           *)
(* coordinate is an integer number of halves and the arithmetic is exact.  *)
(***************************************************************************)
EXTENDS Integers, Sequences, FiniteSets, TLC

VARIABLES robots, items, last, steps, moves, placedY, inserted, lock, threads,
          held, message, parsed, orch

vars == <<robots, items, last, steps, moves, placedY, inserted, lock, threads,
          held, message, parsed, orch>>

\* what the callers of the store, the parser and the orchestrator tool keep
Others == <<held, message, parsed, orch>>

(***************************************************************************)
(* Bounds of the model.                                                    *)
(***************************************************************************)
\* number of accepted pick, drop and stack commands explored from an initial state
MaxSteps == 4

\* number of accepted moves explored from an initial state
MaxMoves == 1

(***************************************************************************)
(* Values.                                                                 *)
(***************************************************************************)
\* halves per warehouse unit (the 0.5 of y_val = 0.5 * (level + 1))
Unit == 2

\* Python None, for optional strings and for optional numbers
None == "None"
NoNum == -999

width == 50 * Unit
depth == 30 * Unit
height == 10 * Unit

\* default argument of position_occupied_by_other
tolerance == 2 * Unit

\* step of a directional move
step == 5 * Unit

\* height at which the aerial robot flies
uav_height == 5 * Unit

\* fallback stack base of _get_stack_base_position
default_base == <<25 * Unit, 10 * Unit>>

\* StripLower that also reads "up" as "north"
StripLower_up(s) ==
    CASE s = "UGV "   -> "ugv"
      [] s = " North" -> "north"
      [] s = "up"     -> "north"
      [] OTHER        -> s

\* str.strip().lower() on the robot names and directions the model feeds in
StripLower(s) ==
    CASE s = "UGV "   -> "ugv"
      [] s = " North" -> "north"
      [] OTHER        -> s

\* str.strip() on the item and stack ids the model feeds in
Strip(s) ==
    CASE s = "item-1 " -> "item-1"
      [] s = " "       -> ""
      [] OTHER         -> s

\* truthiness of an optional string: None and "" are falsy
Truthy(s) == s # None /\ s # ""

\* id_map.get(robot_key)
id_map(robot_key) ==
    CASE robot_key = "uav" -> "uav-1"
      [] robot_key = "ugv" -> "ugv-1"
      [] robot_key = "arm" -> "arm-1"
      [] OTHER             -> None

(***************************************************************************)
(* current_task is a string or None.  It is modelled as the sequence of    *)
(* the pieces the code concatenates: <<>> for None, <<"carrying_", id>>    *)
(* for f"carrying_{id}" and <<"holding_", id>> for f"holding_{id}".        *)
(***************************************************************************)
NoTask == <<>>

startswith(task, prefix) == Len(task) > 0 /\ task[1] = prefix

\* the task taken whole as the id, the prefix not removed
replace_nothing(task, prefix) == prefix

\* task.replace(prefix, "").strip()
replace_strip(task, prefix) ==
    LET rest == SelectSeq(task, LAMBDA t : t # prefix)
    IN  IF rest = <<>> THEN "" ELSE Strip(rest[1])

\* carried_of that decodes only the arm's "holding_" spelling
carried_of_holding_only(task) ==
    IF startswith(task, "holding_") THEN replace_strip(task, "holding_") ELSE None

\* the carried-item decoding shared by _get_robot_carried_item,
\* _get_robot_holding_item and the move branch; None when nothing is held
carried_of(task) ==
    IF startswith(task, "carrying_") THEN replace_strip(task, "carrying_")
    ELSE IF startswith(task, "holding_") THEN replace_strip(task, "holding_")
    ELSE None

(***************************************************************************)
(* State store.  robots and items are the lists _state["robots"] and       *)
(* _state["items"]; list order matters (first match, last stack member).   *)
(***************************************************************************)
SeedRobots ==
    << [id |-> "uav-1", type |-> "uav", position |-> <<10 * Unit, 5 * Unit, 5 * Unit>>,
        orientation |-> <<0, 0, 0>>, status |-> "idle", current_task |-> NoTask],
       [id |-> "ugv-1", type |-> "ugv", position |-> <<5 * Unit, 0, 5 * Unit>>,
        orientation |-> <<0, 0, 0>>, status |-> "idle", current_task |-> NoTask],
       [id |-> "arm-1", type |-> "arm", position |-> <<25 * Unit, 0, 10 * Unit>>,
        orientation |-> <<0, 0, 0>>, status |-> "idle", current_task |-> NoTask] >>

SeedItems ==
    << [id |-> "item-1", position |-> <<8 * Unit, 0, 6 * Unit>>, stack_id |-> None],
       [id |-> "item-2", position |-> <<12 * Unit, 0, 12 * Unit>>, stack_id |-> None],
       [id |-> "item-3", position |-> <<25 * Unit, 0, 10 * Unit>>, stack_id |-> "stack-1"] >>

\* index of the first element of list l whose id is id0, 0 when there is none
find_index(l, id0) ==
    IF \E i \in 1..Len(l) : l[i].id = id0
    THEN CHOOSE i \in 1..Len(l) : l[i].id = id0 /\ \A j \in 1..(i - 1) : l[j].id # id0
    ELSE 0

\* the sentinel "do not change this field": a status, and a current_task
_UNSET == "_UNSET"
UnsetTask == <<"_UNSET">>

\* an omitted position or orientation argument (Python None)
NoPos == <<>>

\* upsert_robot that reads a current_task of None as "leave unchanged"
upsert_robot_collapsed(rs, robot_id, robot_type, position, orientation, status, current_task) ==
    LET idx == find_index(rs, robot_id)
    IN  IF idx = 0
        THEN Append(rs, [id |-> robot_id,
                         type |-> IF Truthy(robot_type) THEN robot_type ELSE "unknown",
                         position |-> IF position # NoPos THEN position ELSE <<0, 0, 0>>,
                         orientation |-> IF orientation # NoPos THEN orientation ELSE <<0, 0, 0>>,
                         status |-> IF status # _UNSET THEN status ELSE "idle",
                         current_task |-> IF current_task # UnsetTask THEN current_task ELSE NoTask])
        ELSE [rs EXCEPT
                ![idx].type = IF robot_type # None THEN robot_type ELSE @,
                ![idx].position = IF position # NoPos THEN position ELSE @,
                ![idx].orientation = IF orientation # NoPos THEN orientation ELSE @,
                ![idx].status = IF status # _UNSET THEN status ELSE @,
                ![idx].current_task =
                    IF current_task # UnsetTask /\ current_task # NoTask THEN current_task ELSE @]

\* create the robot at the end of the list with the defaults for what is
\* not given, or merge the given fields into the existing entry
upsert_robot(rs, robot_id, robot_type, position, orientation, status, current_task) ==
    LET idx == find_index(rs, robot_id)
    IN  IF idx = 0
        THEN Append(rs, [id |-> robot_id,
                         type |-> IF Truthy(robot_type) THEN robot_type ELSE "unknown",
                         position |-> IF position # NoPos THEN position ELSE <<0, 0, 0>>,
                         orientation |-> IF orientation # NoPos THEN orientation ELSE <<0, 0, 0>>,
                         status |-> IF status # _UNSET THEN status ELSE "idle",
                         current_task |-> IF current_task # UnsetTask THEN current_task ELSE NoTask])
        ELSE [rs EXCEPT
                ![idx].type = IF robot_type # None THEN robot_type ELSE @,
                ![idx].position = IF position # NoPos THEN position ELSE @,
                ![idx].orientation = IF orientation # NoPos THEN orientation ELSE @,
                ![idx].status = IF status # _UNSET THEN status ELSE @,
                ![idx].current_task = IF current_task # UnsetTask THEN current_task ELSE @]

\* upsert_robot(robot_id, position=(x, y, z))
update_robot_position(rs, robot_id, x, y, z) ==
    upsert_robot(rs, robot_id, None, <<x, y, z>>, NoPos, _UNSET, UnsetTask)

\* update_robot_status taking a current_task of None for "leave unchanged"
update_robot_status_unset(rs, robot_id, status, current_task) ==
    LET idx == find_index(rs, robot_id)
    IN  IF current_task = NoTask
        THEN [rs EXCEPT ![idx].status = status]
        ELSE [rs EXCEPT ![idx].status = status, ![idx].current_task = current_task]

\* upsert_robot(robot_id, status=status, current_task=current_task)
update_robot_status(rs, robot_id, status, current_task) ==
    upsert_robot(rs, robot_id, None, NoPos, NoPos, status, current_task)

\* upsert_item merging like upsert_robot: a stack_id of None leaves the field
upsert_item_merge(its, item_id, position, stack_id) ==
    LET idx == find_index(its, item_id)
    IN  IF idx = 0
        THEN Append(its, [id |-> item_id, position |-> position, stack_id |-> stack_id])
        ELSE IF stack_id = None
        THEN [its EXCEPT ![idx].position = position]
        ELSE [its EXCEPT ![idx].position = position, ![idx].stack_id = stack_id]

\* create the item at the end of the list, or overwrite position and
\* stack_id of the existing entry in place
upsert_item(its, item_id, position, stack_id) ==
    LET idx == find_index(its, item_id)
    IN  IF idx = 0
        THEN Append(its, [id |-> item_id, position |-> position, stack_id |-> stack_id])
        ELSE [its EXCEPT ![idx].position = position, ![idx].stack_id = stack_id]

\* is_within_bounds without the height check
is_within_bounds_floor(x, y, z) ==
    0 <= x /\ x <= width /\ 0 <= z /\ z <= depth

is_within_bounds(x, y, z) ==
    0 <= x /\ x <= width /\ 0 <= z /\ z <= depth /\ 0 <= y /\ y <= height

\* squared distance; dist < tolerance is compared as dist^2 < tolerance^2
dist2(p, q) ==
    (p[1] - q[1]) * (p[1] - q[1]) + (p[2] - q[2]) * (p[2] - q[2])
      + (p[3] - q[3]) * (p[3] - q[3])

\* position_occupied_by_other comparing the squared distance with tolerance
position_occupied_by_other_unsquared(rs, robot_id, x, y, z) ==
    LET hit(i) == rs[i].id # robot_id
                    /\ dist2(rs[i].position, <<x, y, z>>) < tolerance
    IN  IF \E i \in 1..Len(rs) : hit(i)
        THEN rs[CHOOSE i \in 1..Len(rs) : hit(i) /\ \A j \in 1..(i - 1) : ~hit(j)].id
        ELSE None

\* id of the first other robot closer than tolerance to (x, y, z), or None
position_occupied_by_other(rs, robot_id, x, y, z) ==
    LET hit(i) == rs[i].id # robot_id
                    /\ dist2(rs[i].position, <<x, y, z>>) < tolerance * tolerance
    IN  IF \E i \in 1..Len(rs) : hit(i)
        THEN rs[CHOOSE i \in 1..Len(rs) : hit(i) /\ \A j \in 1..(i - 1) : ~hit(j)].id
        ELSE None

(***************************************************************************)
(* Helpers of the executor; they read the snapshot taken by get_state().   *)
(***************************************************************************)
_get_robot_position(rs, robot_id) ==
    LET idx == find_index(rs, robot_id)
    IN  IF idx = 0 THEN <<0, 0, 0>> ELSE rs[idx].position

_get_item_position(its, item_id) ==
    LET idx == find_index(its, item_id)
    IN  IF idx = 0 THEN <<0, 0, 0>> ELSE its[idx].position

\* the members of a stack, in list order
stack_items(its, stack_id) == SelectSeq(its, LAMBDA it : it.stack_id = stack_id)

_stack_height(its, stack_id) == Len(stack_items(its, stack_id))

\* _get_robot_carried_item that reports what any robot holds
_get_robot_carried_item_any(rs, robot_id) ==
    LET holds(i) == carried_of(rs[i].current_task) # None
    IN  IF \E i \in 1..Len(rs) : holds(i)
        THEN carried_of(rs[CHOOSE i \in 1..Len(rs) : holds(i)].current_task)
        ELSE None

_get_robot_carried_item(rs, robot_id) ==
    LET idx == find_index(rs, robot_id)
    IN  IF idx = 0 THEN None ELSE carried_of(rs[idx].current_task)

\* _get_robot_holding_item that finds no holder
_get_robot_holding_item_none(rs, item_id) == None

\* id of the first robot whose task decodes to item_id, or None
_get_robot_holding_item(rs, item_id) ==
    LET holds(i) == carried_of(rs[i].current_task) = item_id
    IN  IF \E i \in 1..Len(rs) : holds(i)
        THEN rs[CHOOSE i \in 1..Len(rs) : holds(i) /\ \A j \in 1..(i - 1) : ~holds(j)].id
        ELSE None

\* _get_stack_base_position that always gives the default base
_get_stack_base_position_default(its, stack_id) == default_base

_get_stack_base_position(its, stack_id) ==
    LET members == stack_items(its, stack_id)
    IN  IF Len(members) > 0
        THEN <<members[1].position[1], members[1].position[3]>>
        ELSE default_base

(***************************************************************************)
(* Command executor.  A command c is the argument record of                *)
(* execute_warehouse_command; the result carries the store as the call     *)
(* leaves it, whether it returns (ok) or raises ValueError (err).          *)
(***************************************************************************)
NoReply == [robot_id |-> None, position |-> <<0, 0, 0>>, verb |-> None, what |-> None]

Raise(rs, its, msg) ==
    [ok |-> FALSE, err |-> msg, robots |-> rs, items |-> its, reply |-> NoReply]

Return(rs, its, robot_id, verb, what) ==
    [ok |-> TRUE, err |-> None, robots |-> rs, items |-> its,
     reply |-> [robot_id |-> robot_id, position |-> _get_robot_position(rs, robot_id),
                verb |-> verb, what |-> what]]

\* action == "pick"
exec_pick(rs, its, c, robot_key, robot_id) ==
    IF robot_key # "ugv" THEN Raise(rs, its, "Only UGV can pick items from the floor.")
    ELSE IF ~Truthy(c.item_id) THEN Raise(rs, its, "item_id required for pick.")
    ELSE IF Truthy(_get_robot_carried_item(rs, robot_id))
    THEN Raise(rs, its, "UGV is already carrying an item. Drop it first before picking another item.")
    ELSE
      LET item_id == Strip(c.item_id)
          idx     == find_index(its, item_id)
      IN  IF idx = 0 THEN Raise(rs, its, "Item not found.")
          ELSE IF Truthy(its[idx].stack_id)
          THEN Raise(rs, its, "Item is on a stack. Use arm pick from stack.")
          ELSE
            LET held_by == _get_robot_holding_item(rs, item_id)
            IN  IF held_by # None /\ held_by # robot_id
                THEN Raise(rs, its, "Item is already held. It must be released first.")
                ELSE
                  LET ipos == _get_item_position(its, item_id)
                      ix   == ipos[1]
                      iz   == ipos[3]
                      rs1  == update_robot_position(rs, robot_id, ix, 0, iz)
                      its1 == upsert_item(its, item_id, <<ix, 0, iz>>, None)
                      rs2  == update_robot_status(rs1, robot_id, "working",
                                                  <<"carrying_", item_id>>)
                  IN  Return(rs2, its1, robot_id, "picked", item_id)

\* action == "drop"
exec_drop(rs, its, c, robot_key, robot_id) ==
    IF robot_key # "ugv" THEN Raise(rs, its, "Only UGV can drop items.")
    ELSE IF ~Truthy(c.item_id) THEN Raise(rs, its, "item_id required for drop.")
    ELSE IF c.x = NoNum \/ c.z = NoNum THEN Raise(rs, its, "x and z required for drop.")
    ELSE
      LET carried == _get_robot_carried_item(rs, robot_id)
          item_id == Strip(c.item_id)
          tx      == c.x
          tz      == c.z
      IN  IF carried # item_id THEN Raise(rs, its, "UGV is not carrying the item.")
          ELSE IF ~is_within_bounds(tx, 0, tz)
          THEN Raise(rs, its, "Drop position is outside warehouse bounds.")
          ELSE IF position_occupied_by_other(rs, robot_id, tx, 0, tz) # None
          THEN Raise(rs, its, "Cannot drop: position occupied. Choose another location.")
          ELSE
            LET rs1  == update_robot_position(rs, robot_id, tx, 0, tz)
                its1 == upsert_item(its, item_id, <<tx, 0, tz>>, None)
                rs2  == update_robot_status(rs1, robot_id, "idle", NoTask)
            IN  Return(rs2, its1, robot_id, "dropped", item_id)

\* top = stack_items[-1]: the last member of the stack in list order
top_of(members) == members[Len(members)]

\* action == "pick_from_stack"
exec_pick_from_stack(rs, its, c, robot_key, robot_id) ==
    IF robot_key # "arm" THEN Raise(rs, its, "Only arm can pick from stack.")
    ELSE IF ~Truthy(c.stack_id) THEN Raise(rs, its, "stack_id required for pick_from_stack.")
    ELSE IF Truthy(_get_robot_carried_item(rs, robot_id))
    THEN Raise(rs, its, "Arm is already holding an item. Place it on a stack first before picking another.")
    ELSE
      LET stack_id == Strip(c.stack_id)
          members  == stack_items(its, stack_id)
      IN  IF Len(members) = 0 THEN Raise(rs, its, "No items in stack.")
          ELSE
            LET top         == top_of(members)
                top_item_id == top.id
                ix          == top.position[1]
                iy          == top.position[2]
                iz          == top.position[3]
            IN  IF position_occupied_by_other(rs, robot_id, ix, iy, iz) # None
                THEN Raise(rs, its, "Cannot pick from stack: a robot is at the stack. Ask it to move first.")
                ELSE
                  LET rs1  == update_robot_position(rs, robot_id, ix, iy, iz)
                      its1 == upsert_item(its, top_item_id, <<ix, iy, iz>>, None)
                      rs2  == update_robot_status(rs1, robot_id, "working",
                                                  <<"holding_", top_item_id>>)
                  IN  Return(rs2, its1, robot_id, "picked from", top_item_id)

\* y_val that ignores the level
y_val_of_flat(level) == 1

\* y_val = 0.5 * (level + 1), in halves
y_val_of(level) == level + 1

\* action == "place_on_stack"
exec_place_on_stack(rs, its, c, robot_key, robot_id) ==
    IF robot_key # "arm" THEN Raise(rs, its, "Only arm can place on stack.")
    ELSE IF ~Truthy(c.stack_id) \/ ~Truthy(c.item_id)
    THEN Raise(rs, its, "stack_id and item_id required for place_on_stack.")
    ELSE
      LET holding == _get_robot_carried_item(rs, robot_id)
          item_id == Strip(c.item_id)
      IN  IF holding # item_id THEN Raise(rs, its, "Arm is not holding the item.")
          ELSE
            LET stack_id == Strip(c.stack_id)
                level    == _stack_height(its, stack_id)
                base     == _get_stack_base_position(its, stack_id)
                base_x   == base[1]
                base_z   == base[2]
                y_val    == y_val_of(level)
            IN  IF ~is_within_bounds(base_x, y_val, base_z)
                THEN Raise(rs, its, "Stack position would be outside warehouse bounds.")
                ELSE IF position_occupied_by_other(rs, robot_id, base_x, y_val, base_z) # None
                THEN Raise(rs, its, "Cannot place on stack: a robot is at the stack. Ask it to move first.")
                ELSE
                  LET rs1  == update_robot_position(rs, robot_id, base_x, y_val, base_z)
                      its1 == upsert_item(its, item_id, <<base_x, y_val, base_z>>, stack_id)
                      rs2  == update_robot_status(rs1, robot_id, "idle", NoTask)
                  IN  Return(rs2, its1, robot_id, "placed", item_id)

\* step_of with north and south exchanged
step_of_swapped(direction) ==
    CASE direction = "north" -> <<0, step>>
      [] direction = "south" -> <<0, 0 - step>>
      [] direction = "east"  -> <<step, 0>>
      [] direction = "west"  -> <<0 - step, 0>>
      [] OTHER               -> <<0, 0>>

\* (dx, dz) of a direction; <<0, 0>> marks a direction the code rejects
step_of(direction) ==
    CASE direction = "north" -> <<0, 0 - step>>
      [] direction = "south" -> <<0, step>>
      [] direction = "east"  -> <<step, 0>>
      [] direction = "west"  -> <<0 - step, 0>>
      [] OTHER               -> <<0, 0>>

\* the height a move keeps or takes when the caller gives no y
default_y(robot_key, cy) ==
    IF robot_key = "ugv" THEN 0 ELSE IF robot_key = "uav" THEN uav_height ELSE cy

\* position of the item a moving robot carries
carried_position(robot_key, tx, ty, tz) ==
    IF robot_key = "ugv" THEN <<tx, 0, tz>> ELSE <<tx, ty, tz>>

\* move_to writing the position before the collision check
move_to_write_first(rs, its, robot_key, robot_id, tx, ty, tz) ==
    IF ~is_within_bounds(tx, ty, tz)
    THEN Raise(rs, its, "Target position is outside warehouse bounds.")
    ELSE
      LET rs1        == update_robot_position(rs, robot_id, tx, ty, tz)
          idx        == find_index(rs, robot_id)
          task       == IF idx = 0 THEN NoTask ELSE rs[idx].current_task
          carried_id == carried_of(task)
      IN  IF position_occupied_by_other(rs, robot_id, tx, ty, tz) # None
          THEN Raise(rs1, its, "Would collide with a robot. Choose another position.")
          ELSE IF Truthy(carried_id)
          THEN Return(update_robot_status(rs1, robot_id, "working", task),
                      upsert_item(its, carried_id,
                                  carried_position(robot_key, tx, ty, tz), None),
                      robot_id, "moved", None)
          ELSE Return(update_robot_status(rs1, robot_id, "idle", NoTask), its,
                      robot_id, "moved", None)

\* bounds check, collision check and writes of the move branch
move_to(rs, its, robot_key, robot_id, tx, ty, tz) ==
    IF ~is_within_bounds(tx, ty, tz)
    THEN Raise(rs, its, "Target position is outside warehouse bounds.")
    ELSE IF position_occupied_by_other(rs, robot_id, tx, ty, tz) # None
    THEN Raise(rs, its, "Would collide with a robot. Choose another position.")
    ELSE
      LET rs1        == update_robot_position(rs, robot_id, tx, ty, tz)
          idx        == find_index(rs, robot_id)
          task       == IF idx = 0 THEN NoTask ELSE rs[idx].current_task
          carried_id == carried_of(task)
      IN  IF Truthy(carried_id)
          THEN Return(update_robot_status(rs1, robot_id, "working", task),
                      upsert_item(its, carried_id,
                                  carried_position(robot_key, tx, ty, tz), None),
                      robot_id, "moved", None)
          ELSE Return(update_robot_status(rs1, robot_id, "idle", NoTask), its,
                      robot_id, "moved", None)

\* the else branch: any other action is a move
exec_move(rs, its, c, robot_key, robot_id) ==
    LET cur == _get_robot_position(rs, robot_id)
        cx  == cur[1]
        cy  == cur[2]
        cz  == cur[3]
    IN  IF c.x # NoNum /\ c.z # NoNum
        THEN move_to(rs, its, robot_key, robot_id, c.x,
                     IF c.y # NoNum THEN c.y ELSE default_y(robot_key, cy), c.z)
        ELSE IF Truthy(c.direction)
        THEN LET direction == StripLower(c.direction)
                 d         == step_of(direction)
             IN  IF direction \notin {"north", "south", "east", "west"}
                 THEN Raise(rs, its, "direction must be one of: north, south, east, west")
                 ELSE move_to(rs, its, robot_key, robot_id, cx + d[1],
                              default_y(robot_key, cy), cz + d[2])
        ELSE Raise(rs, its, "Provide direction or absolute coordinates (x,y,z) for move.")

\* (action or "").strip().lower() or "move"
normal_action(action) ==
    LET a == IF action = None THEN "" ELSE StripLower(action)
    IN  IF a = "" THEN "move" ELSE a

execute_warehouse_command(rs, its, c) ==
    LET robot_key == StripLower(c.robot)
        robot_id  == id_map(robot_key)
        action    == normal_action(c.action)
    IN  IF robot_id = None THEN Raise(rs, its, "robot must be one of: uav, ugv, arm")
        ELSE IF action = "pick" THEN exec_pick(rs, its, c, robot_key, robot_id)
        ELSE IF action = "drop" THEN exec_drop(rs, its, c, robot_key, robot_id)
        ELSE IF action = "pick_from_stack"
        THEN exec_pick_from_stack(rs, its, c, robot_key, robot_id)
        ELSE IF action = "place_on_stack"
        THEN exec_place_on_stack(rs, its, c, robot_key, robot_id)
        ELSE exec_move(rs, its, c, robot_key, robot_id)

(***************************************************************************)
(* HTTP command endpoint, service_main.warehouse_command: its own copy of  *)
(* the command logic over the same store.  HTTPException is the rejection. *)
(***************************************************************************)
\* action == "pick"
http_pick(rs, its, c, robot_key, robot_id) ==
    IF robot_key # "ugv" THEN Raise(rs, its, "Only UGV can pick items from the floor.")
    ELSE IF ~Truthy(c.item_id) THEN Raise(rs, its, "item_id required for pick.")
    ELSE IF Truthy(_get_robot_carried_item(rs, robot_id))
    THEN Raise(rs, its, "UGV is already carrying an item. Drop it first before picking another item.")
    ELSE
      LET item_id == Strip(c.item_id)
          idx     == find_index(its, item_id)
      IN  IF idx = 0 THEN Raise(rs, its, "Item not found.")
          ELSE IF Truthy(its[idx].stack_id)
          THEN Raise(rs, its, "Item is on a stack. Use arm pick from stack.")
          ELSE
            LET held_by == _get_robot_holding_item(rs, item_id)
            IN  IF held_by # None /\ held_by # robot_id
                THEN Raise(rs, its, "Item is already held. It must be released first.")
                ELSE
                  LET ipos == _get_item_position(its, item_id)
                      rs1  == update_robot_position(rs, robot_id, ipos[1], 0, ipos[3])
                      its1 == upsert_item(its, item_id, <<ipos[1], 0, ipos[3]>>, None)
                      rs2  == update_robot_status(rs1, robot_id, "working",
                                                  <<"carrying_", item_id>>)
                  IN  Return(rs2, its1, robot_id, "picked", item_id)

\* action == "drop"
http_drop(rs, its, c, robot_key, robot_id) ==
    IF robot_key # "ugv" THEN Raise(rs, its, "Only UGV can drop items.")
    ELSE IF ~Truthy(c.item_id) THEN Raise(rs, its, "item_id required for drop.")
    ELSE IF c.x = NoNum \/ c.z = NoNum THEN Raise(rs, its, "x and z required for drop.")
    ELSE
      LET carried == _get_robot_carried_item(rs, robot_id)
          item_id == Strip(c.item_id)
      IN  IF carried # item_id THEN Raise(rs, its, "UGV is not carrying the item.")
          ELSE IF ~is_within_bounds(c.x, 0, c.z)
          THEN Raise(rs, its, "Drop position is outside warehouse bounds.")
          ELSE
            LET rs1  == update_robot_position(rs, robot_id, c.x, 0, c.z)
                its1 == upsert_item(its, item_id, <<c.x, 0, c.z>>, None)
                rs2  == update_robot_status(rs1, robot_id, "idle", NoTask)
            IN  Return(rs2, its1, robot_id, "dropped", item_id)

\* action == "pick_from_stack"
http_pick_from_stack(rs, its, c, robot_key, robot_id) ==
    IF robot_key # "arm" THEN Raise(rs, its, "Only arm can pick from stack.")
    ELSE IF ~Truthy(c.stack_id) THEN Raise(rs, its, "stack_id required for pick_from_stack.")
    ELSE IF Truthy(_get_robot_carried_item(rs, robot_id))
    THEN Raise(rs, its, "Arm is already holding an item. Place it on a stack first before picking another.")
    ELSE
      LET members == stack_items(its, Strip(c.stack_id))
      IN  IF Len(members) = 0 THEN Raise(rs, its, "No items in stack.")
          ELSE
            LET top  == top_of(members)
                rs1  == update_robot_position(rs, robot_id, top.position[1],
                                              top.position[2], top.position[3])
                its1 == upsert_item(its, top.id, top.position, None)
                rs2  == update_robot_status(rs1, robot_id, "working", <<"holding_", top.id>>)
            IN  Return(rs2, its1, robot_id, "picked from", top.id)

\* action == "place_on_stack"
http_place_on_stack(rs, its, c, robot_key, robot_id) ==
    IF robot_key # "arm" THEN Raise(rs, its, "Only arm can place on stack.")
    ELSE IF ~Truthy(c.stack_id) \/ ~Truthy(c.item_id)
    THEN Raise(rs, its, "stack_id and item_id required for place_on_stack.")
    ELSE
      LET holding == _get_robot_carried_item(rs, robot_id)
          item_id == Strip(c.item_id)
      IN  IF holding # item_id THEN Raise(rs, its, "Arm is not holding the item.")
          ELSE
            LET stack_id == Strip(c.stack_id)
                base     == _get_stack_base_position(its, stack_id)
                y        == y_val_of(_stack_height(its, stack_id))
            IN  IF ~is_within_bounds(base[1], y, base[2])
                THEN Raise(rs, its, "Stack position would be outside warehouse bounds.")
                ELSE
                  LET rs1  == update_robot_position(rs, robot_id, base[1], y, base[2])
                      its1 == upsert_item(its, item_id, <<base[1], y, base[2]>>, stack_id)
                      rs2  == update_robot_status(rs1, robot_id, "idle", NoTask)
                  IN  Return(rs2, its1, robot_id, "placed", item_id)

\* bounds check and writes of the endpoint's move branch
http_move_to(rs, its, robot_key, robot_id, tx, ty, tz) ==
    IF ~is_within_bounds(tx, ty, tz)
    THEN Raise(rs, its, "Target position is outside warehouse bounds.")
    ELSE
      LET rs1        == update_robot_position(rs, robot_id, tx, ty, tz)
          idx        == find_index(rs, robot_id)
          task       == IF idx = 0 THEN NoTask ELSE rs[idx].current_task
          carried_id == carried_of(task)
      IN  IF Truthy(carried_id)
          THEN Return(update_robot_status(rs1, robot_id, "working", task),
                      upsert_item(its, carried_id,
                                  carried_position(robot_key, tx, ty, tz), None),
                      robot_id, "moved", None)
          ELSE Return(update_robot_status(rs1, robot_id, "idle", NoTask), its,
                      robot_id, "moved", None)

\* the else branch of the endpoint: any other action is a move
http_move(rs, its, c, robot_key, robot_id) ==
    LET cur == _get_robot_position(rs, robot_id)
    IN  IF c.x # NoNum /\ c.z # NoNum
        THEN http_move_to(rs, its, robot_key, robot_id, c.x,
                          IF c.y # NoNum THEN c.y
                          ELSE IF robot_key = "ugv" THEN 0 ELSE uav_height,
                          c.z)
        ELSE IF Truthy(c.direction)
        THEN LET d == step_of(StripLower(c.direction))
             IN  http_move_to(rs, its, robot_key, robot_id, cur[1] + d[1],
                              default_y(robot_key, cur[2]), cur[3] + d[2])
        ELSE Raise(rs, its, "Provide direction or absolute coordinates (x,y,z) for move.")

warehouse_command(rs, its, c) ==
    LET robot_key == StripLower(c.robot)
        robot_id  == id_map(robot_key)
        action    == normal_action(c.action)
    IN  IF robot_id = None THEN Raise(rs, its, "robot must be one of: uav, ugv, arm")
        ELSE IF action = "pick" THEN http_pick(rs, its, c, robot_key, robot_id)
        ELSE IF action = "drop" THEN http_drop(rs, its, c, robot_key, robot_id)
        ELSE IF action = "pick_from_stack"
        THEN http_pick_from_stack(rs, its, c, robot_key, robot_id)
        ELSE IF action = "place_on_stack"
        THEN http_place_on_stack(rs, its, c, robot_key, robot_id)
        ELSE http_move(rs, its, c, robot_key, robot_id)

(***************************************************************************)
(* Post-condition verifier.  It is given the raw arguments of the command, *)
(* the snapshot before it (prev_rs) and the snapshot after it (rs, its).   *)
(* On the half-unit grid abs(a - b) > 0.01 is a # b.                       *)
(***************************************************************************)
Verified == [ok |-> TRUE, reason |-> ""]

Failed(reason) == [ok |-> FALSE, reason |-> reason]

\* (action or "move").strip().lower()
verify_action(action) ==
    IF ~Truthy(action) THEN "move" ELSE StripLower(action)

\* str(i.get("id")) == str(item_id): the id is compared as given, unstripped
verify_find_item(its, item_id) == find_index(its, item_id)

\* action == "move"
verify_move(c, robot_id, prev_pos, pos) ==
    IF ~is_within_bounds(pos[1], pos[2], pos[3]) THEN Failed("robot position out of bounds")
    ELSE IF c.x # NoNum /\ c.z # NoNum
              /\ pos # <<c.x,
                         IF c.y # NoNum THEN c.y
                         ELSE IF robot_id = "ugv-1" THEN 0
                         ELSE IF robot_id = "uav-1" THEN uav_height
                         ELSE prev_pos[2],
                         c.z>>
    THEN Failed("move target mismatch")
    ELSE IF Truthy(c.direction)
              /\ LET d == step_of(StripLower(c.direction))
                 IN  pos # <<prev_pos[1] + d[1],
                             IF robot_id = "arm-1" THEN prev_pos[2]
                             ELSE IF robot_id = "ugv-1" THEN 0 ELSE uav_height,
                             prev_pos[3] + d[2]>>
    THEN Failed("directional move mismatch")
    ELSE Verified

\* action == "pick"
verify_pick(c, pos, task, its) ==
    IF ~Truthy(c.item_id) THEN Verified
    ELSE IF ~startswith(task, "carrying_") THEN Failed("UGV not carrying after pick")
    ELSE IF replace_strip(task, "carrying_") # c.item_id THEN Failed("UGV carrying another item")
    ELSE
      LET idx == verify_find_item(its, c.item_id)
      IN  IF idx = 0 THEN Failed("item not in state")
          ELSE IF its[idx].position # pos
          THEN Failed("item position does not match robot position")
          ELSE IF its[idx].stack_id # None THEN Failed("picked item still has stack_id")
          ELSE Verified

\* action == "drop"
verify_drop(c, task, its) ==
    IF Truthy(c.item_id) /\ startswith(task, "carrying_")
    THEN Failed("UGV still carrying after drop")
    ELSE IF Truthy(c.item_id) /\ c.x # NoNum /\ c.z # NoNum
    THEN LET idx == verify_find_item(its, c.item_id)
         IN  IF idx = 0 THEN Failed("item not in state")
             ELSE IF its[idx].position[2] # 0 THEN Failed("dropped item must be on floor y=0")
             ELSE IF its[idx].stack_id # None THEN Failed("dropped item should not be on stack")
             ELSE IF its[idx].position[1] # c.x \/ its[idx].position[3] # c.z
             THEN Failed("item not at drop position")
             ELSE Verified
    ELSE Verified

\* action == "pick_from_stack"
verify_pick_from_stack(task, its) ==
    IF ~startswith(task, "holding_") THEN Failed("Arm not holding after pick_from_stack")
    ELSE
      LET idx == verify_find_item(its, replace_strip(task, "holding_"))
      IN  IF idx = 0 THEN Failed("held item not present in items")
          ELSE IF its[idx].stack_id # None THEN Failed("held item still has stack_id")
          ELSE Verified

\* action == "place_on_stack"
verify_place_on_stack(c, task, its) ==
    LET named == Truthy(c.item_id) /\ Truthy(c.stack_id)
        idx   == verify_find_item(its, c.item_id)
    IN  IF named /\ idx = 0 THEN Failed("item not in state")
        ELSE IF named /\ its[idx].stack_id # c.stack_id THEN Failed("item not on stack after place")
        ELSE IF named /\ its[idx].position[2] <= 0 THEN Failed("stacked item should have y>0")
        ELSE IF startswith(task, "holding_") THEN Failed("Arm still holding after place_on_stack")
        ELSE Verified

verify_warehouse_state_after_command(c, prev_rs, rs, its) ==
    LET robot_id == id_map(IF c.robot = None THEN "" ELSE StripLower(c.robot))
        idx      == find_index(rs, robot_id)
        action   == verify_action(c.action)
    IN  IF robot_id = None THEN Failed("unknown robot")
        ELSE IF idx = 0 THEN Failed("robot not in state")
        ELSE
          LET pos      == rs[idx].position
              task     == rs[idx].current_task
              prev_pos == _get_robot_position(prev_rs, robot_id)
          IN  IF action = "move" THEN verify_move(c, robot_id, prev_pos, pos)
              ELSE IF action = "pick" THEN verify_pick(c, pos, task, its)
              ELSE IF action = "drop" THEN verify_drop(c, task, its)
              ELSE IF action = "pick_from_stack" THEN verify_pick_from_stack(task, its)
              ELSE IF action = "place_on_stack" THEN verify_place_on_stack(c, task, its)
              ELSE Verified

(***************************************************************************)
(* Inputs the callers feed to the executor.                                *)
(***************************************************************************)
RobotInputs == {"ugv", "uav", "arm", "UGV ", "drone"}

ItemInputs == {"item-1", "item-2", "item-3", "item-1 ", "item-9", None}

StackInputs == {"stack-1", "stack-2", " ", None}

DirectionInputs == {"north", "south", "east", "west", " North", "up", None}

\* absolute targets <<x, y, z>>; NoNum is an argument left out
NoCoord == <<NoNum, NoNum, NoNum>>

MoveCoordInputs ==
    { <<24 * Unit, NoNum, 10 * Unit>>,
      <<10 * Unit, 3 * Unit, 5 * Unit>> }

\* targets no move accepts (out of bounds in x, in y), and one without z
BadMoveCoordInputs ==
    { <<51 * Unit, NoNum, 5 * Unit>>,
      <<10 * Unit, 11 * Unit, 5 * Unit>>,
      <<10 * Unit, NoNum, NoNum>> }

DropCoordInputs ==
    { <<24 * Unit, NoNum, 10 * Unit>>,
      <<10 * Unit, NoNum, 5 * Unit>>,
      <<10 * Unit, NoNum, 31 * Unit>>,
      NoCoord }

Cmd(robot, action, direction, item_id, stack_id, xyz) ==
    [robot |-> robot, action |-> action, direction |-> direction,
     item_id |-> item_id, stack_id |-> stack_id,
     x |-> xyz[1], y |-> xyz[2], z |-> xyz[3]]

\* stack ids the store can hold after strip()
StackIds == {"stack-1", "stack-2", ""}

(***************************************************************************)
(* History kept beside the store:                                          *)
(*   last      the last accepted call: its arguments and its reply         *)
(*   steps     number of accepted pick, drop and stack commands so far     *)
(*   moves     number of accepted moves so far                             *)
(*   placedY   per stack, the y given by the last accepted place_on_stack  *)
(*             and the number of accepted place_on_stack onto it since an  *)
(*             item was last taken off it                                  *)
(*   inserted  the stacked items in the order they joined their stack      *)
(* lock is the store's mutex and threads the callers running concurrently; *)
(* a call taken in one step leaves both alone.                             *)
(***************************************************************************)
NoCmd == Cmd(None, None, None, None, None, NoCoord)

Remove(seq, e) == SelectSeq(seq, LAMBDA v : v # e)

\* some member of stack s before the call is no longer one after it
TakenOff(s, out) ==
    \E i \in 1..Len(items) :
        /\ items[i].stack_id = s
        /\ \E j \in 1..Len(out.items) :
               out.items[j].id = items[i].id /\ out.items[j].stack_id # s

NextPlacedY(c, out) ==
    [s \in StackIds |->
        IF normal_action(c.action) = "place_on_stack" /\ Strip(c.stack_id) = s
        THEN [y |-> out.reply.position[2], run |-> placedY[s].run + 1]
        ELSE IF TakenOff(s, out)
        THEN [placedY[s] EXCEPT !.run = 0]
        ELSE placedY[s]]

NextInserted(c, out) ==
    LET a == normal_action(c.action)
    IN  IF a = "place_on_stack"
        THEN Append(Remove(inserted, out.reply.what), out.reply.what)
        ELSE IF a = "pick_from_stack"
        THEN Remove(inserted, out.reply.what)
        ELSE inserted

\* the arguments as the executor reads them: names lowered, ids stripped
Normal(c) ==
    [c EXCEPT !.robot = StripLower(c.robot),
              !.action = normal_action(c.action),
              !.direction = IF c.direction = None THEN None ELSE StripLower(c.direction),
              !.item_id = IF c.item_id = None THEN None ELSE Strip(c.item_id),
              !.stack_id = IF c.stack_id = None THEN None ELSE Strip(c.stack_id)]

\* one call of execute_warehouse_command, from get_state() to return or raise;
\* a call that raises leaves the store as the code left it and no history
Execute(c) ==
    \E out \in {execute_warehouse_command(robots, items, c)} :
        /\ robots' = out.robots
        /\ items' = out.items
        /\ IF out.ok
           THEN /\ last' = [cmd |-> Normal(c), reply |-> out.reply]
                /\ IF out.reply.verb = "moved"
                   THEN moves < MaxMoves /\ moves' = moves + 1 /\ steps' = steps
                   ELSE steps < MaxSteps /\ steps' = steps + 1 /\ moves' = moves
                /\ placedY' = NextPlacedY(c, out)
                /\ inserted' = NextInserted(c, out)
           ELSE UNCHANGED <<last, steps, moves, placedY, inserted>>
        /\ UNCHANGED <<lock, threads, Others>>

PickCmds ==
    { Cmd("ugv", "pick", None, i, None, NoCoord) : i \in ItemInputs }
      \cup { Cmd(r, "pick", None, "item-1", None, NoCoord) : r \in RobotInputs }

DropCmds ==
    { Cmd("ugv", "drop", None, ix[1], None, ix[2]) :
        ix \in {"item-1", "item-2", "item-3"} \X DropCoordInputs }
      \cup { Cmd("ugv", "drop", None, i, None, <<10 * Unit, NoNum, 5 * Unit>>) :
               i \in ItemInputs }
      \cup { Cmd(r, "drop", None, "item-1", None, <<10 * Unit, NoNum, 5 * Unit>>) :
               r \in RobotInputs }

PickFromStackCmds ==
    { Cmd("arm", "pick_from_stack", None, None, s, NoCoord) : s \in StackInputs }
      \cup { Cmd(r, "pick_from_stack", None, None, "stack-1", NoCoord) :
               r \in RobotInputs }

PlaceOnStackCmds ==
    { Cmd("arm", "place_on_stack", None, si[2], si[1], NoCoord) :
        si \in (StackInputs \ {None}) \X {"item-1", "item-2", "item-3"} }
      \cup { Cmd("arm", "place_on_stack", None, i, "stack-1", NoCoord) :
               i \in ItemInputs }
      \cup { Cmd("arm", "place_on_stack", None, "item-3", None, NoCoord) }
      \cup { Cmd(r, "place_on_stack", None, "item-3", "stack-1", NoCoord) :
               r \in RobotInputs }

MoveCmds ==
    { Cmd(rd[1], "move", rd[2], None, None, NoCoord) :
        rd \in {"ugv", "uav", "arm"} \X {"north", "south", "east", "west"} }
      \cup { Cmd("ugv", "move", d, None, None, NoCoord) : d \in DirectionInputs }
      \cup { Cmd(r, "move", "up", None, None, NoCoord) : r \in {"uav", "arm"} }
      \cup { Cmd(r, "move", "north", None, None, NoCoord) : r \in RobotInputs }
      \cup { Cmd(rx[1], "move", None, None, None, rx[2]) :
               rx \in {"ugv", "uav", "arm"} \X MoveCoordInputs }
      \cup { Cmd("ugv", "move", "east", None, None, xyz) :
               xyz \in BadMoveCoordInputs \cup MoveCoordInputs }

Commands == PickCmds \cup DropCmds \cup PickFromStackCmds \cup PlaceOnStackCmds \cup MoveCmds

Pick ==
    /\ \E c \in PickCmds : Execute(c)

Drop ==
    /\ \E c \in DropCmds : Execute(c)

PickFromStack ==
    /\ \E c \in PickFromStackCmds : Execute(c)

PlaceOnStack ==
    /\ \E c \in PlaceOnStackCmds : Execute(c)

Move ==
    /\ \E c \in MoveCmds : Execute(c)

NoLast == [cmd |-> NoCmd, reply |-> NoReply]

\* threading.Lock(): 0 when free, else the thread holding it
NoThread == 0

Threads == {1, 2}

\* a caller that has not issued its command yet
IdleThread ==
    [pc |-> "idle", inop |-> FALSE, cmd |-> NoCmd, snap_rs |-> <<>>, snap_its |-> <<>>,
     writes |-> <<>>, result |-> None]

NoPlaced == [s \in StackIds |-> [y |-> NoNum, run |-> 0]]

\* ids of the stacked items, in list order
StackedIds(its) ==
    LET st == SelectSeq(its, LAMBDA it : it.stack_id # None)
    IN  [k \in 1..Len(st) |-> st[k].id]

\* nothing held by a caller, no message parsed, the orchestrator tool not called
NoHeld == <<>>
NoMsg == <<>>
NotParsed == [called |-> FALSE, match |-> FALSE, cmd |-> NoCmd]
IdleOrch ==
    [pc |-> "idle", cmd |-> NoCmd, before |-> <<>>, runs |-> 0, wrote |-> FALSE,
     verified |-> None, report |-> None]

OthersIdle ==
    /\ held = NoHeld
    /\ message = NoMsg
    /\ parsed = NotParsed
    /\ orch = IdleOrch

\* the store after _init_default_state()
Init ==
    /\ robots = SeedRobots
    /\ items = SeedItems
    /\ last = NoLast
    /\ steps = 0
    /\ moves = 0
    /\ placedY = NoPlaced
    /\ inserted = StackedIds(SeedItems)
    /\ lock = NoThread
    /\ threads = [t \in Threads |-> IdleThread]
    /\ OthersIdle

Next == Pick \/ Drop \/ PickFromStack \/ PlaceOnStack \/ Move

Spec == Init /\ [][Next]_vars

(***************************************************************************)
(* Stores with more than one stacked item.  The executor alone never       *)
(* builds one from the seed (the arm only ever holds what it took from a   *)
(* stack, and the seed stacks item-3 alone); a caller of the store does,   *)
(* with upsert_item(id, position, stack_id) on the seeded items.  item-2   *)
(* is put on stack-2, item-1 is left on the floor or put on stack-2 before *)
(* it; the members of stack-2 stand at 0.5, 1.0 above (40, 20).            *)
(***************************************************************************)
StackAssignments == {a \in [{"item-1", "item-2"} -> {None, "stack-2"}] : a["item-2"] # None}

AnyItems(a) ==
    LET put(its, id, y) ==
            IF a[id] = None THEN its
            ELSE upsert_item(its, id, <<40 * Unit, y, 20 * Unit>>, a[id])
        its1 == put(SeedItems, "item-1", 1)
    IN  put(its1, "item-2", _stack_height(its1, "stack-2") + 1)

InitAny ==
    /\ robots = SeedRobots
    /\ \E a \in StackAssignments : items = AnyItems(a)
    /\ last = NoLast
    /\ steps = 0
    /\ moves = 0
    /\ placedY = NoPlaced
    /\ inserted = StackedIds(items)
    /\ lock = NoThread
    /\ threads = [t \in Threads |-> IdleThread]
    /\ OthersIdle

SpecAny == InitAny /\ [][Next]_vars

(***************************************************************************)
(* The endpoint and the executor serve the same store: SpecHttp lets every *)
(* command go through either.                                              *)
(***************************************************************************)
\* one call of POST /v1/warehouse/command
HttpExecute(c) ==
    \E out \in {warehouse_command(robots, items, c)} :
        /\ robots' = out.robots
        /\ items' = out.items
        /\ IF out.ok
           THEN /\ last' = [cmd |-> Normal(c), reply |-> out.reply]
                /\ IF out.reply.verb = "moved"
                   THEN moves < MaxMoves /\ moves' = moves + 1 /\ steps' = steps
                   ELSE steps < MaxSteps /\ steps' = steps + 1 /\ moves' = moves
                /\ placedY' = NextPlacedY(c, out)
                /\ inserted' = NextInserted(c, out)
           ELSE UNCHANGED <<last, steps, moves, placedY, inserted>>
        /\ UNCHANGED <<lock, threads, Others>>

Http ==
    /\ \E c \in Commands : HttpExecute(c)

NextHttp == Next \/ Http

SpecHttp == Init /\ [][NextHttp]_vars

(***************************************************************************)
(* Concurrent callers.  Each thread runs one call of                       *)
(* execute_warehouse_command as the sequence of store operations the code  *)
(* makes: get_state(), the checks on that snapshot, is_within_bounds(),    *)
(* position_occupied_by_other(), the writes, and the closing get_state().  *)
(* An operation written "with _lock:" is entered by taking the mutex and   *)
(* left by releasing it; get_warehouse_bounds() takes no mutex.  inop says *)
(* the thread is inside a store operation.                                 *)
(***************************************************************************)
ConcCmds ==
    { Cmd("ugv", "pick", None, "item-1", None, NoCoord),
      Cmd("ugv", "pick", None, "item-2", None, NoCoord),
      Cmd("ugv", "drop", None, "item-1", None, <<10 * Unit, NoNum, 5 * Unit>>),
      Cmd("ugv", "move", "east", None, None, NoCoord),
      Cmd("arm", "pick_from_stack", None, None, "stack-1", NoCoord),
      Cmd("drone", "move", "east", None, None, NoCoord) }

\* the errors raised after is_within_bounds() and after
\* position_occupied_by_other()
BoundsErrs ==
    { "Drop position is outside warehouse bounds.",
      "Stack position would be outside warehouse bounds.",
      "Target position is outside warehouse bounds." }

OccupiedErrs ==
    { "Cannot drop: position occupied. Choose another location.",
      "Cannot pick from stack: a robot is at the stack. Ask it to move first.",
      "Cannot place on stack: a robot is at the stack. Ask it to move first.",
      "Would collide with a robot. Choose another position." }

\* the branches that call is_within_bounds and position_occupied_by_other
HasBounds(action) == action \notin {"pick", "pick_from_stack"}

HasLookup(action) == action # "pick"

\* the operations entered through "with _lock:"
LockedOps == {"get_state", "occupied", "write", "new_state", "reset_state"}

\* state = get_state() taking the live store instead of the copy
state_read_live(snap, store) == store

\* state = get_state(): the checks read the deep copy, not the store
state_read(snap, store) == snap

\* what position_occupied_by_other reads: the other robots' positions in the
\* store at the time of the lookup; everything else the call decides on
\* comes from its snapshot
lookup_view(snap_rs, store_rs, robot_id) ==
    [i \in 1..Len(snap_rs) |->
        IF snap_rs[i].id = robot_id \/ find_index(store_rs, snap_rs[i].id) = 0
        THEN snap_rs[i]
        ELSE [snap_rs[i] EXCEPT
                 !.position = store_rs[find_index(store_rs, snap_rs[i].id)].position]]

NoWrite ==
    [op |-> None, robot_id |-> None, item_id |-> None, position |-> <<0, 0, 0>>,
     stack_id |-> None, status |-> None, current_task |-> NoTask]

\* the store writes of an accepted call, in the order the code makes them:
\* update_robot_position, upsert_item (a move writes the carried item, if
\* any), update_robot_status
writes_of(snap_rs, out) ==
    LET rid     == out.reply.robot_id
        r       == out.robots[find_index(out.robots, rid)]
        item_id == IF out.reply.verb = "moved"
                   THEN carried_of(snap_rs[find_index(snap_rs, rid)].current_task)
                   ELSE out.reply.what
        posw    == [NoWrite EXCEPT !.op = "position", !.robot_id = rid,
                                   !.position = out.reply.position]
        statw   == [NoWrite EXCEPT !.op = "status", !.robot_id = rid,
                                   !.status = r.status, !.current_task = r.current_task]
    IN  IF Truthy(item_id)
        THEN LET it == out.items[find_index(out.items, item_id)]
             IN  << posw,
                    [NoWrite EXCEPT !.op = "item", !.item_id = item_id,
                                    !.position = it.position, !.stack_id = it.stack_id],
                    statw >>
        ELSE <<posw, statw>>

\* one store write, on the live store
write_robots(rs, w) ==
    IF w.op = "position"
    THEN update_robot_position(rs, w.robot_id, w.position[1], w.position[2], w.position[3])
    ELSE IF w.op = "status"
    THEN update_robot_status(rs, w.robot_id, w.status, w.current_task)
    ELSE rs

write_items(its, w) ==
    IF w.op = "item" THEN upsert_item(its, w.item_id, w.position, w.stack_id) ELSE its

\* the call as its checks decide it on the state they read
decided(t) ==
    execute_warehouse_command(state_read(threads[t].snap_rs, robots),
                              state_read(threads[t].snap_its, items), threads[t].cmd)

History == <<last, steps, moves, placedY, inserted>>

\* a thread calls execute_warehouse_command; an unknown robot raises before
\* any store operation
Call(t) ==
    /\ threads[t].pc = "idle"
    /\ \E c \in ConcCmds :
           threads' = [threads EXCEPT ![t].cmd = c,
                          ![t].pc = IF id_map(StripLower(c.robot)) = None
                                    THEN "done" ELSE "get_state",
                          ![t].result = IF id_map(StripLower(c.robot)) = None
                                        THEN "rejected" ELSE None]
    /\ UNCHANGED <<robots, items, lock, History, Others>>

\* with _lock: entered
Acquire(t) ==
    /\ threads[t].pc \in LockedOps
    /\ ~threads[t].inop
    /\ lock = NoThread
    /\ lock' = t
    /\ threads' = [threads EXCEPT ![t].inop = TRUE]
    /\ UNCHANGED <<robots, items, History, Others>>

\* get_state(): deepcopy(_state) under the mutex
GetState(t) ==
    /\ threads[t].pc = "get_state"
    /\ threads[t].inop
    /\ lock' = NoThread
    /\ threads' = [threads EXCEPT ![t].inop = FALSE, ![t].pc = "validate",
                                  ![t].snap_rs = robots, ![t].snap_its = items]
    /\ UNCHANGED <<robots, items, History, Others>>

\* the checks of the branch that precede every store call
Validate(t) ==
    /\ threads[t].pc = "validate"
    /\ \E out \in {decided(t)}, action \in {normal_action(threads[t].cmd.action)} :
           IF ~out.ok /\ out.err \notin BoundsErrs \cup OccupiedErrs
           THEN threads' = [threads EXCEPT ![t].pc = "done", ![t].result = "rejected"]
           ELSE IF HasBounds(action)
           THEN threads' = [threads EXCEPT ![t].pc = "bounds"]
           ELSE IF HasLookup(action)
           THEN threads' = [threads EXCEPT ![t].pc = "occupied"]
           ELSE threads' = [threads EXCEPT ![t].pc = "write",
                                           ![t].writes = writes_of(threads[t].snap_rs, out)]
    /\ UNCHANGED <<robots, items, lock, History, Others>>

\* is_within_bounds() -> get_warehouse_bounds(): reads _state, no mutex
BoundsBegin(t) ==
    /\ threads[t].pc = "bounds"
    /\ ~threads[t].inop
    /\ threads' = [threads EXCEPT ![t].inop = TRUE]
    /\ UNCHANGED <<robots, items, lock, History, Others>>

BoundsEnd(t) ==
    /\ threads[t].pc = "bounds"
    /\ threads[t].inop
    /\ \E out \in {decided(t)} :
           IF out.err \in BoundsErrs
           THEN threads' = [threads EXCEPT ![t].inop = FALSE, ![t].pc = "done",
                                           ![t].result = "rejected"]
           ELSE threads' = [threads EXCEPT ![t].inop = FALSE, ![t].pc = "occupied"]
    /\ UNCHANGED <<robots, items, lock, History, Others>>

\* position_occupied_by_other(): reads the live robots under the mutex
Occupied(t) ==
    /\ threads[t].pc = "occupied"
    /\ threads[t].inop
    /\ lock' = NoThread
    /\ \E out \in {execute_warehouse_command(
                         lookup_view(threads[t].snap_rs, robots,
                                     id_map(StripLower(threads[t].cmd.robot))),
                         threads[t].snap_its, threads[t].cmd)} :
           IF out.ok
           THEN threads' = [threads EXCEPT ![t].inop = FALSE, ![t].pc = "write",
                                           ![t].writes = writes_of(threads[t].snap_rs, out)]
           ELSE threads' = [threads EXCEPT ![t].inop = FALSE, ![t].pc = "done",
                                           ![t].result = "rejected"]
    /\ UNCHANGED <<robots, items, History, Others>>

\* upsert_robot() or upsert_item(): one write under the mutex
Write(t) ==
    /\ threads[t].pc = "write"
    /\ threads[t].inop
    /\ lock' = NoThread
    /\ robots' = write_robots(robots, Head(threads[t].writes))
    /\ items' = write_items(items, Head(threads[t].writes))
    /\ threads' = [threads EXCEPT ![t].inop = FALSE,
                                  ![t].writes = Tail(threads[t].writes),
                                  ![t].pc = IF Len(threads[t].writes) = 1
                                            THEN "new_state" ELSE "write"]
    /\ UNCHANGED <<History, Others>>

\* new_state = get_state(), and the call returns
NewState(t) ==
    /\ threads[t].pc = "new_state"
    /\ threads[t].inop
    /\ lock' = NoThread
    /\ threads' = [threads EXCEPT ![t].inop = FALSE, ![t].pc = "done", ![t].result = "ok"]
    /\ UNCHANGED <<robots, items, History, Others>>

NextConc ==
    \E t \in Threads :
        \/ Call(t)
        \/ Acquire(t)
        \/ GetState(t)
        \/ Validate(t)
        \/ BoundsBegin(t)
        \/ BoundsEnd(t)
        \/ Occupied(t)
        \/ Write(t)
        \/ NewState(t)

SpecConc == Init /\ [][NextConc]_vars

(***************************************************************************)
(* Concurrent callers on one item.  SpecRace starts in the seed state or   *)
(* in the state one accepted command later, and gives each thread one call *)
(* out of the commands that take, carry and release items: the ground      *)
(* robot's pick, move and drop, the arm's pick_from_stack and              *)
(* place_on_stack.  The store operations are those of SpecConc.            *)
(***************************************************************************)
RaceCmds ==
    { Cmd("ugv", "pick", None, "item-3", None, NoCoord),
      Cmd("arm", "pick_from_stack", None, None, "stack-1", NoCoord),
      Cmd("arm", "place_on_stack", None, "item-3", "stack-1", NoCoord),
      Cmd("ugv", "move", "east", None, None, NoCoord),
      Cmd("ugv", "drop", None, "item-1", None, <<10 * Unit, NoNum, 5 * Unit>>) }

\* the store after one accepted command
StoreAfter(c) ==
    [robots |-> execute_warehouse_command(SeedRobots, SeedItems, c).robots,
     items |-> execute_warehouse_command(SeedRobots, SeedItems, c).items]

RaceStarts ==
    { [robots |-> SeedRobots, items |-> SeedItems],
      StoreAfter(Cmd("ugv", "pick", None, "item-1", None, NoCoord)),
      StoreAfter(Cmd("arm", "pick_from_stack", None, None, "stack-1", NoCoord)) }

CallRace(t) ==
    /\ threads[t].pc = "idle"
    /\ \E c \in RaceCmds :
           threads' = [threads EXCEPT ![t].cmd = c, ![t].pc = "get_state"]
    /\ UNCHANGED <<robots, items, lock, History, Others>>

InitRace ==
    /\ \E st \in RaceStarts : robots = st.robots /\ items = st.items
    /\ last = NoLast
    /\ steps = 0
    /\ moves = 0
    /\ placedY = NoPlaced
    /\ inserted = StackedIds(SeedItems)
    /\ lock = NoThread
    /\ threads = [t \in Threads |-> IdleThread]
    /\ OthersIdle

NextRace ==
    \E t \in Threads :
        \/ CallRace(t)
        \/ Acquire(t)
        \/ GetState(t)
        \/ Validate(t)
        \/ BoundsBegin(t)
        \/ BoundsEnd(t)
        \/ Occupied(t)
        \/ Write(t)
        \/ NewState(t)

SpecRace == InitRace /\ [][NextRace]_vars

(***************************************************************************)
(* Commands, snapshots and resets issued concurrently.  Each thread makes  *)
(* one call: execute_warehouse_command, get_state() or reset_state().      *)
(* SpecLive adds the fairness of the thread scheduler: a thread that can   *)
(* take a step (it is not waiting for the mutex) eventually takes one.     *)
(***************************************************************************)
LiveCmds ==
    { Cmd("ugv", "move", "east", None, None, NoCoord),
      Cmd("ugv", "pick", None, "item-1", None, NoCoord),
      Cmd("arm", "pick_from_stack", None, None, "stack-1", NoCoord) }

\* the call of a store function on its own
StoreFn(name) == [NoCmd EXCEPT !.action = name]

CallCommand(t) ==
    /\ threads[t].pc = "idle"
    /\ \E c \in LiveCmds :
           threads' = [threads EXCEPT ![t].cmd = c, ![t].pc = "get_state"]
    /\ UNCHANGED <<robots, items, lock, History, Others>>

\* get_state() called by a reader: the operation of NewState
CallGetState(t) ==
    /\ threads[t].pc = "idle"
    /\ threads' = [threads EXCEPT ![t].cmd = StoreFn("get_state"), ![t].pc = "new_state"]
    /\ UNCHANGED <<robots, items, lock, History, Others>>

CallResetState(t) ==
    /\ threads[t].pc = "idle"
    /\ threads' = [threads EXCEPT ![t].cmd = StoreFn("reset_state"), ![t].pc = "reset_state"]
    /\ UNCHANGED <<robots, items, lock, History, Others>>

\* _init_default_state leaving its "with _lock:" block without releasing
_init_default_state_held(t) ==
    /\ threads[t].pc = "reset_state"
    /\ threads[t].inop
    /\ robots' = SeedRobots
    /\ items' = SeedItems
    /\ threads' = [threads EXCEPT ![t].inop = FALSE, ![t].pc = "done", ![t].result = "ok"]
    /\ UNCHANGED <<lock, History, Others>>

\* reset_state() -> _init_default_state(): both lists rewritten under the mutex
_init_default_state(t) ==
    /\ threads[t].pc = "reset_state"
    /\ threads[t].inop
    /\ lock' = NoThread
    /\ robots' = SeedRobots
    /\ items' = SeedItems
    /\ threads' = [threads EXCEPT ![t].inop = FALSE, ![t].pc = "done", ![t].result = "ok"]
    /\ UNCHANGED <<History, Others>>

\* the steps of a thread that take, use and release the mutex or read the
\* bounds
StoreStep(t) ==
    \/ Acquire(t)
    \/ GetState(t)
    \/ BoundsBegin(t)
    \/ Write(t)
    \/ NewState(t)
    \/ _init_default_state(t)

\* the steps in which a thread evaluates its checks
CheckStep(t) ==
    \/ Validate(t)
    \/ BoundsEnd(t)
    \/ Occupied(t)

\* CheckStep(t) can be taken: the thread is at its checks, or inside
\* is_within_bounds() or position_occupied_by_other()
AtCheck(t) ==
    \/ threads[t].pc = "validate"
    \/ threads[t].pc \in {"bounds", "occupied"} /\ threads[t].inop

\* WF_vars(CheckStep(t)) written with AtCheck(t) for ENABLED <<CheckStep(t)>>_vars:
\* the checks always end, in a rejection or in the next store operation, so
\* a CheckStep(t) is the step that changes thread t while AtCheck(t) holds
FairCheck(t) ==
    \/ []<>(~AtCheck(t))
    \/ []<><<AtCheck(t) /\ threads'[t] # threads[t]>>_vars

NextLive ==
    \E t \in Threads :
        \/ CallCommand(t)
        \/ CallGetState(t)
        \/ CallResetState(t)
        \/ StoreStep(t)
        \/ CheckStep(t)

SpecLive ==
    Init /\ [][NextLive]_vars /\ \A t \in Threads : WF_vars(StoreStep(t)) /\ FairCheck(t)

(***************************************************************************)
(* The store's robot writers on their own.  SpecUpsert applies one call of *)
(* upsert_robot, update_robot_position or update_robot_status to a store   *)
(* the writers can have built, with every field given or left out.         *)
(***************************************************************************)
\* the seed, the seed with the ground robot loaded and turned, and the seed
\* with a fourth robot created by upsert_robot
UpsertStores ==
    { SeedRobots,
      upsert_robot(SeedRobots, "ugv-1", None, NoPos, <<0, 90, 0>>, "carrying",
                   <<"carrying_", "item-1">>),
      upsert_robot(SeedRobots, "bot-9", None, NoPos, NoPos, _UNSET, UnsetTask) }

UpsertIds == {"ugv-1", "bot-9", "bot-7"}
TypeInputs == {None, "", "agv"}
PositionInputs == {NoPos, <<2 * Unit, 0, 3 * Unit>>}
OrientationInputs == {NoPos, <<0, 180, 0>>}
StatusInputs == {_UNSET, None, "busy"}
TaskInputs == {UnsetTask, NoTask, <<"carrying_", "item-2">>}

\* a call of the store, as the caller wrote it
StoreCall(op, robot_id, robot_type, position, orientation, status, current_task) ==
    [op |-> op, robot_id |-> robot_id, robot_type |-> robot_type, position |-> position,
     orientation |-> orientation, status |-> status, current_task |-> current_task]

\* the entry of robot_id in the list, as the writers return it
returned_robot(rs, robot_id) == rs[find_index(rs, robot_id)]

StoreFrame == <<items, steps, moves, placedY, inserted, lock, threads, Others>>

UpsertRobot ==
    /\ last = NoLast
    /\ \E id \in UpsertIds, ty \in TypeInputs, p \in PositionInputs, o \in OrientationInputs,
          st \in StatusInputs, task \in TaskInputs :
          /\ robots' = upsert_robot(robots, id, ty, p, o, st, task)
          /\ last' = [cmd |-> StoreCall("upsert_robot", id, ty, p, o, st, task),
                      reply |-> returned_robot(robots', id)]
    /\ UNCHANGED StoreFrame

UpdateRobotPosition ==
    /\ last = NoLast
    /\ \E id \in UpsertIds, p \in PositionInputs \ {NoPos} :
          /\ robots' = update_robot_position(robots, id, p[1], p[2], p[3])
          /\ last' = [cmd |-> StoreCall("update_robot_position", id, None, p, NoPos,
                                        _UNSET, UnsetTask),
                      reply |-> returned_robot(robots', id)]
    /\ UNCHANGED StoreFrame

UpdateRobotStatus ==
    /\ last = NoLast
    /\ \E id \in UpsertIds, st \in StatusInputs \ {_UNSET}, task \in TaskInputs :
          /\ robots' = update_robot_status(robots, id, st, task)
          /\ last' = [cmd |-> StoreCall("update_robot_status", id, None, NoPos, NoPos,
                                        st, task),
                      reply |-> returned_robot(robots', id)]
    /\ UNCHANGED StoreFrame

InitUpsert ==
    /\ robots \in UpsertStores
    /\ items = SeedItems
    /\ last = NoLast
    /\ steps = 0
    /\ moves = 0
    /\ placedY = NoPlaced
    /\ inserted = StackedIds(SeedItems)
    /\ lock = NoThread
    /\ threads = [t \in Threads |-> IdleThread]
    /\ OthersIdle

NextUpsert == UpsertRobot \/ UpdateRobotPosition \/ UpdateRobotStatus

SpecUpsert == InitUpsert /\ [][NextUpsert]_vars

(***************************************************************************)
(* Callers of the store and the objects they are handed.  get_state,       *)
(* upsert_robot and upsert_item return deepcopy(...) of what the store     *)
(* holds.  A returned object is modelled with the one thing a copy changes:*)
(* whether it is the store's own object (live) or a separate one with its  *)
(* own contents (val).  held is the list of the objects the callers keep;  *)
(* Mutate is a caller assigning into one of them.                          *)
(***************************************************************************)
\* number of store calls and caller assignments explored from the seed
MaxStoreOps == 3

\* a returned object that is the store's own
deepcopy_shared(v) == [live |-> TRUE, val |-> v]

\* copy.deepcopy: a separate object with the same contents
deepcopy(v) == [live |-> FALSE, val |-> v]

\* get_state that hands the state out and leaves the default state behind
get_state_reset(rs, its) ==
    [ret |-> deepcopy([robots |-> rs, items |-> its]),
     robots |-> SeedRobots, items |-> SeedItems]

\* with _lock: return deepcopy(_state); robots and items are the store after
get_state(rs, its) ==
    [ret |-> deepcopy([robots |-> rs, items |-> its]), robots |-> rs, items |-> its]

\* remove_item: the list without the entries of that id
remove_item(its, item_id) == SelectSeq(its, LAMBDA it : it.id # item_id)

\* what a caller keeps: the target it was copied from and the object
Held(what, id, obj) == [what |-> what, id |-> id, obj |-> obj]

\* what reading a kept object gives when the store holds rs and its
Contents(h, rs, its) ==
    IF ~h.obj.live THEN h.obj.val
    ELSE CASE h.what = "state" -> [robots |-> rs, items |-> its]
           [] h.what = "robot" -> rs[find_index(rs, h.id)]
           [] OTHER            -> IF find_index(its, h.id) = 0 THEN h.obj.val
                                  ELSE its[find_index(its, h.id)]

\* a caller's assignment into an object it was handed
assigned(what, v) ==
    CASE what = "state" -> [robots |-> [v.robots EXCEPT ![1].status = "edited"],
                            items |-> Tail(v.items)]
      [] what = "robot" -> [v EXCEPT !.status = "edited"]
      [] OTHER          -> [v EXCEPT !.stack_id = "edited"]

StoreOp(op) == [cmd |-> [op |-> op, after |-> last.cmd.op], reply |-> NoReply]

StoreRest == <<placedY, inserted, lock, threads, moves, message, parsed, orch>>

\* a caller takes a snapshot
Snapshot ==
    /\ steps < MaxStoreOps
    /\ \E out \in {get_state(robots, items)} :
          /\ held' = Append(held, Held("state", None, out.ret))
          /\ robots' = out.robots
          /\ items' = out.items
    /\ last' = StoreOp("get_state")
    /\ steps' = steps + 1
    /\ UNCHANGED StoreRest

\* a caller writes a robot and keeps the returned entry
WriteRobot ==
    /\ steps < MaxStoreOps
    /\ \/ /\ robots' = update_robot_position(robots, "ugv-1", 2 * Unit, 0, 3 * Unit)
          /\ last' = StoreOp("update_robot_position")
       \/ /\ robots' = update_robot_status(robots, "ugv-1", "busy", UnsetTask)
          /\ last' = StoreOp("update_robot_status")
    /\ held' = Append(held, Held("robot", "ugv-1", deepcopy(returned_robot(robots', "ugv-1"))))
    /\ steps' = steps + 1
    /\ UNCHANGED <<items, StoreRest>>

\* a caller writes an item and keeps the returned entry
WriteItem ==
    /\ steps < MaxStoreOps
    /\ \E id \in {"item-1", "item-9"} :
          /\ items' = upsert_item(items, id, <<4 * Unit, 0, 4 * Unit>>, None)
          /\ held' = Append(held, Held("item", id, deepcopy(returned_robot(items', id))))
    /\ last' = StoreOp("upsert_item")
    /\ steps' = steps + 1
    /\ UNCHANGED <<robots, StoreRest>>

\* a caller removes an item
RemoveItem ==
    /\ steps < MaxStoreOps
    /\ items' = remove_item(items, "item-2")
    /\ last' = StoreOp("remove_item")
    /\ steps' = steps + 1
    /\ UNCHANGED <<robots, held, StoreRest>>

\* a caller assigns into an object it keeps: into the store when the object
\* is the store's own, else into the caller's separate object
Mutate ==
    /\ steps < MaxStoreOps
    /\ \E k \in 1..Len(held) :
          LET h == held[k]
              v == assigned(h.what, Contents(h, robots, items))
          IN  IF h.obj.live
              THEN /\ robots' = CASE h.what = "state" -> v.robots
                                  [] h.what = "robot" ->
                                        [robots EXCEPT ![find_index(robots, h.id)] = v]
                                  [] OTHER -> robots
                   /\ items' = CASE h.what = "state" -> v.items
                                 [] h.what = "item" /\ find_index(items, h.id) # 0 ->
                                        [items EXCEPT ![find_index(items, h.id)] = v]
                                 [] OTHER -> items
                   /\ held' = held
              ELSE /\ held' = [held EXCEPT ![k].obj.val = v]
                   /\ UNCHANGED <<robots, items>>
    /\ last' = StoreOp("assign")
    /\ steps' = steps + 1
    /\ UNCHANGED StoreRest

InitStore ==
    /\ robots = SeedRobots
    /\ items = SeedItems
    /\ last = [cmd |-> [op |-> "_init_default_state", after |-> None], reply |-> NoReply]
    /\ steps = 0
    /\ moves = 0
    /\ placedY = NoPlaced
    /\ inserted = StackedIds(SeedItems)
    /\ lock = NoThread
    /\ threads = [t \in Threads |-> IdleThread]
    /\ OthersIdle

NextStore == Snapshot \/ WriteRobot \/ WriteItem \/ RemoveItem \/ Mutate

SpecStore == InitStore /\ [][NextStore]_vars

(***************************************************************************)
(* Direct-command parser (agents/warehouse/direct_commands.py).  A message *)
(* is the sequence of its whitespace-separated words, which is what        *)
(* re.sub(r"\s+", " ", message.strip()) leaves to tell apart; the regular  *)
(* expressions, all anchored at both ends with every group one word long,  *)
(* are matched word by word.                                               *)
(***************************************************************************)
\* str.lower() on the words the model feeds in
lower(tok) ==
    CASE tok = "Move"  -> "move"
      [] tok = "UGV"   -> "ugv"
      [] tok = "North" -> "north"
      [] OTHER         -> tok

\* re.sub(r"[.!?]+$", "", msg) on the last word; a word that was nothing but
\* punctuation leaves "", the blank that stood before it
unpunct(tok) ==
    CASE tok = "north." -> "north"
      [] tok = "2!"     -> "2"
      [] tok = "."      -> ""
      [] OTHER          -> tok

\* lower-case, drop a leading please / kindly, drop the trailing punctuation
normalize(msg0) ==
    LET low == [i \in 1..Len(msg0) |-> lower(msg0[i])]
        pol == IF Len(low) >= 2 /\ low[1] \in {"please", "kindly"} THEN Tail(low) ELSE low
    IN  IF pol = <<>> THEN <<>> ELSE [pol EXCEPT ![Len(pol)] = unpunct(@)]

\* "toward" in msg, "scan" in msg, ... on the words the model feeds in
has_toward(tok) == tok \in {"toward", "towards"}
has_scan(tok) == tok \in {"scan", "scanning", "scanner-1"}
has_mapping(tok) == tok = "mapping"
ends_map(tok) == tok = "map"
ends_find(tok) == tok = "find"
starts_item(tok) == tok \in {"item", "items", "item-1", "item-3"}
has_stack(tok) == tok \in {"stack", "stack-1", "stack-2"}

\* the decline test that forgets the scanning and mapping words
declined_toward_only(m) ==
    \E i \in 1..Len(m) : has_toward(m[i])

\* messages kept on the LLM path: toward(s); scan, mapping, "map ", find item(s)
declined(m) ==
    \/ \E i \in 1..Len(m) : has_toward(m[i])
    \/ \E i \in 1..Len(m) :
          \/ has_scan(m[i])
          \/ has_mapping(m[i])
          \/ ends_map(m[i]) /\ i < Len(m)
          \/ ends_find(m[i]) /\ i < Len(m) /\ starts_item(m[i + 1])

\* _ID_RE and _NUM_RE on the words the model feeds in
NotIds == {"", "(10,", "5)", "2!"}
is_id(tok) == tok \notin NotIds
is_num(tok) == tok \in {"10", "5", "2", "-3"}

\* float(...) of a number word, in halves of a unit
float_of(tok) ==
    CASE tok = "10" -> 10 * Unit
      [] tok = "5"  -> 5 * Unit
      [] tok = "2"  -> 2 * Unit
      [] tok = "-3" -> 0 - 3 * Unit

\* the number inside \(?\s*NUM\s*[, ] and inside NUM\s*\)?
open_num(tok) == IF tok = "(10," THEN "10" ELSE tok
close_num(tok) == IF tok = "5)" THEN "5" ELSE tok

normalize_robot(tok) ==
    CASE tok \in {"ugv", "ugv-1", "ugx", "ugx-1", "agv", "agv-1"} -> "ugv"
      [] tok \in {"uav", "uav-1"} -> "uav"
      [] tok \in {"arm", "arm-1"} -> "arm"
      [] OTHER -> None

RobotWords == {"ugv", "ugx", "agv", "uav", "arm"}
DirectionWords == {"north", "south", "east", "west"}

\* an optional leading word
after_opt(m, tok) == IF m # <<>> /\ Head(m) = tok THEN Tail(m) ELSE m
after_opt_in(m, toks) == IF m # <<>> /\ Head(m) \in toks THEN Tail(m) ELSE m

Parsed(c) == [called |-> TRUE, match |-> TRUE, cmd |-> c]
NoMatch == [called |-> TRUE, match |-> FALSE, cmd |-> NoCmd]

\* ^(?:move\s+)?(?:the\s+)?(robot)(?:\s+move(?:\s+to)?|\s+to)?\s+(direction)$
match_move_direction(m) ==
    LET s == after_opt(after_opt(m, "move"), "the")
        r == Tail(s)
        d == r[Len(r)]
    IN  IF s # <<>> /\ Head(s) \in RobotWords /\ r # <<>> /\ d \in DirectionWords
             /\ SubSeq(r, 1, Len(r) - 1) \in {<<>>, <<"move">>, <<"move", "to">>, <<"to">>}
        THEN Parsed(Cmd(normalize_robot(Head(s)), "move", d, None, None, NoCoord))
        ELSE NoMatch

\* ^move\s+(direction)\s+(?:the\s+)?(robot)$
match_move_reversed(m) ==
    LET r == after_opt(SubSeq(m, 3, Len(m)), "the")
    IN  IF Len(m) >= 3 /\ m[1] = "move" /\ m[2] \in DirectionWords
             /\ Len(r) = 1 /\ r[1] \in RobotWords
        THEN Parsed(Cmd(normalize_robot(r[1]), "move", m[2], None, None, NoCoord))
        ELSE NoMatch

\* the coordinates read as x, z, y
coords_of_xzy(nums) ==
    IF Len(nums) = 2
    THEN <<float_of(nums[1]), NoNum, float_of(nums[2])>>
    ELSE <<float_of(nums[1]), float_of(nums[3]), float_of(nums[2])>>

\* "x z" or "x y z": the <<x, y, z>> the numbers stand for
coords_of(nums) ==
    IF Len(nums) = 2
    THEN <<float_of(nums[1]), NoNum, float_of(nums[2])>>
    ELSE <<float_of(nums[1]), float_of(nums[2]), float_of(nums[3])>>

\* ^(?:move\s+)?(?:the\s+)?(robot)(?:\s+move)?\s+to\s+NUM\s+NUM(?:\s+NUM)?$
match_move_absolute(m) ==
    LET s    == after_opt(after_opt(m, "move"), "the")
        r    == after_opt(Tail(s), "move")
        nums == Tail(r)
    IN  IF s # <<>> /\ Head(s) \in RobotWords /\ r # <<>> /\ Head(r) = "to"
             /\ Len(nums) \in {2, 3} /\ \A i \in 1..Len(nums) : is_num(nums[i])
        THEN Parsed(Cmd(normalize_robot(Head(s)), "move", None, None, None, coords_of(nums)))
        ELSE NoMatch

ArmPickWords == {"pick", "grab", "take", "get"}

\* ^arm\s+(?:pick|grab|take|get)\s+(?:from\s+)?(?:stack\s+)?ID$
match_arm_pick(m) ==
    LET r == SubSeq(m, 3, Len(m))
    IN  IF Len(m) >= 3 /\ m[1] = "arm" /\ m[2] \in ArmPickWords /\ is_id(r[Len(r)])
             /\ SubSeq(r, 1, Len(r) - 1) \in {<<>>, <<"from">>, <<"stack">>, <<"from", "stack">>}
        THEN Parsed(Cmd("arm", "pick_from_stack", None, None, r[Len(r)], NoCoord))
        ELSE NoMatch

\* ^(?:pick|grab|take|get)\s+from\s+stack\s+ID$
match_pick_from_stack(m) ==
    IF Len(m) = 4 /\ m[1] \in ArmPickWords /\ m[2] = "from" /\ m[3] = "stack" /\ is_id(m[4])
    THEN Parsed(Cmd("arm", "pick_from_stack", None, None, m[4], NoCoord))
    ELSE NoMatch

\* ^(?:arm\s+)?(?:place|put|stack|add)\s+ID\s+(?:on|onto|to)\s+stack\s+ID$
match_place_on_stack(m) ==
    LET s == after_opt(m, "arm")
    IN  IF Len(s) = 5 /\ s[1] \in {"place", "put", "stack", "add"} /\ is_id(s[2])
             /\ s[3] \in {"on", "onto", "to"} /\ s[4] = "stack" /\ is_id(s[5])
        THEN Parsed(Cmd("arm", "place_on_stack", None, s[2], s[5], NoCoord))
        ELSE NoMatch

\* ^(?:(?:ugv|ugx)\s+)?(?:drop|place|put|release)\s+ID\s+(?:at|to)?\s*
\*    \(?\s*NUM\s*[, ]\s*NUM\s*\)?$
match_drop(m) ==
    LET s == after_opt_in(m, {"ugv", "ugx"})
        r == SubSeq(s, 3, Len(s))
        n == IF Len(r) = 3 /\ r[1] \in {"at", "to"} THEN Tail(r) ELSE r
    IN  IF Len(s) >= 4 /\ s[1] \in {"drop", "place", "put", "release"} /\ is_id(s[2])
             /\ Len(n) = 2 /\ is_num(open_num(n[1])) /\ is_num(close_num(n[2]))
        THEN Parsed(Cmd("ugv", "drop", None, s[2], None,
                        <<float_of(open_num(n[1])), NoNum, float_of(close_num(n[2]))>>))
        ELSE NoMatch

\* if "stack" not in msg:
\* ^(?:(?:ugv|ugx)\s+)?(?:move\s+)?(?:pick|grab|collect|take|get)(?:\s+up)?\s+(?:item\s+)?ID$
match_pick(m) ==
    LET s == after_opt(after_opt_in(m, {"ugv", "ugx"}), "move")
        r == Tail(s)
    IN  IF (\A i \in 1..Len(m) : ~has_stack(m[i]))
             /\ s # <<>> /\ Head(s) \in {"pick", "grab", "collect", "take", "get"}
             /\ r # <<>> /\ is_id(r[Len(r)])
             /\ SubSeq(r, 1, Len(r) - 1) \in {<<>>, <<"up">>, <<"item">>, <<"up", "item">>}
        THEN Parsed(Cmd("ugv", "pick", None, r[Len(r)], None, NoCoord))
        ELSE NoMatch

\* the first pattern that matches, in the order the code tries them
first_match(ms) ==
    IF \E i \in 1..Len(ms) : ms[i].match
    THEN ms[CHOOSE i \in 1..Len(ms) : ms[i].match /\ \A j \in 1..(i - 1) : ~ms[j].match]
    ELSE NoMatch

parse_direct_warehouse_command(msg0) ==
    LET m == normalize(msg0)
    IN  IF m = <<>> \/ m = <<"">> THEN NoMatch
        ELSE IF declined(m) THEN NoMatch
        ELSE first_match(<< match_move_direction(m), match_move_reversed(m),
                            match_move_absolute(m), match_arm_pick(m),
                            match_pick_from_stack(m), match_place_on_stack(m),
                            match_drop(m), match_pick(m) >>)

(***************************************************************************)
(* Messages fed to the parser: every instance of the six command shapes    *)
(* over a small vocabulary, every message of one or two words and every    *)
(* three-word message over the words that steer the parser, and the        *)
(* polite, capitalised and punctuated variants of some of them.            *)
(***************************************************************************)
LeadIns == {<<>>, <<"move">>, <<"the">>, <<"move", "the">>}
NumberWords == {"10", "5", "2"}
Vocabulary ==
    {"move", "the", "ugv", "uav", "arm", "to", "north", "towards", "toward", "scan",
     "scanning", "mapping", "map", "find", "items", "take", "get", "item-1", "stack-1",
     "stack", "please", "area", "go", "."}

SteeringWords == {"move", "ugv", "arm", "to", "north", "towards", "scan", "map", "take", "."}

\* the words an item or stack id can be: every word of the vocabulary that
\* _ID_RE matches, and the optional words of the shapes
IdWords == {w \in Vocabulary : is_id(w)} \cup {"up", "item", "from", "at", "on", "item-3"}


NumberRuns ==
    {<<a, b>> : a \in NumberWords, b \in NumberWords}
      \cup {<<a, b, c>> : a \in NumberWords, b \in NumberWords, c \in NumberWords}

ShapeMoveDirection ==
    {p \o <<r>> \o mid \o <<d>> :
        p \in LeadIns, r \in RobotWords,
        mid \in {<<>>, <<"move">>, <<"move", "to">>, <<"to">>}, d \in DirectionWords}
      \cup {<<"move", d>> \o t \o <<r>> :
               d \in DirectionWords, t \in {<<>>, <<"the">>}, r \in RobotWords}

ShapeMoveAbsolute ==
    {p \o <<r>> \o mv \o <<"to">> \o n :
        p \in LeadIns, r \in RobotWords, mv \in {<<>>, <<"move">>}, n \in NumberRuns}

ShapeArmPick ==
    {<<"arm", v>> \o f \o <<id>> :
        v \in ArmPickWords, f \in {<<>>, <<"from">>, <<"stack">>, <<"from", "stack">>},
        id \in IdWords}
      \cup {<<v, "from", "stack", id>> : v \in ArmPickWords, id \in IdWords}

ShapePlaceOnStack ==
    {a \o <<v, id, prep, "stack", sid>> :
        a \in {<<>>, <<"arm">>}, v \in {"place", "put", "stack", "add"}, id \in IdWords,
        prep \in {"on", "onto", "to"}, sid \in IdWords}

ShapeDrop ==
    {u \o <<v, id>> \o at \o xz :
        u \in {<<>>, <<"ugv">>, <<"ugx">>}, v \in {"drop", "place", "put", "release"},
        id \in IdWords, at \in {<<>>, <<"at">>, <<"to">>},
        xz \in {<<"10", "5">>, <<"(10,", "5)">>, <<"2", "-3">>}}

ShapePick ==
    {u \o mv \o <<v>> \o f \o <<id>> :
        u \in {<<>>, <<"ugv">>, <<"ugx">>}, mv \in {<<>>, <<"move">>},
        v \in {"pick", "grab", "collect", "take", "get"},
        f \in {<<>>, <<"up">>, <<"item">>, <<"up", "item">>}, id \in IdWords}

Shapes ==
    ShapeMoveDirection \cup ShapeMoveAbsolute \cup ShapeArmPick \cup ShapePlaceOnStack
      \cup ShapeDrop \cup ShapePick

ShortMessages ==
    {<<a>> : a \in Vocabulary}
      \cup {<<a, b>> : a \in Vocabulary, b \in Vocabulary}
      \cup {<<a, b, c>> : a \in SteeringWords, b \in SteeringWords, c \in SteeringWords}

Variants ==
    LET some == ShapeMoveDirection \cup ShapePick
    IN  {<<"please">> \o m : m \in some}
          \cup {<<"kindly">> \o m \o <<".">> : m \in ShapeMoveAbsolute}
          \cup {m \o <<"towards", "arm">> : m \in some}
          \cup { <<"Move", "UGV", "North">>, <<"ugv", "north.">>, <<"ugv", "to", "10", "2!">>,
                 <<"move", "ugv", "towards", "the", "arm">>, <<"move", "the", "ugv", "to", "arm">>,
                 <<"scan", "the", "area">>, <<"uav", "map", "the", "area">>,
                 <<"find", "items", "near", "ugv">>, <<"pick", "up", "scanner-1">>,
                 <<"put", "item-3", "on", "stack", "stack-1">>,
                 <<"ugv", "pick", "item-1", "from", "stack-1">>,
                 <<"move", "ugv", "to", "10", "5", "2", "2">>, <<"bot", "to", "10", "5">>,
                 <<"please">>, <<"please", ".">> }

Messages == Shapes \cup ShortMessages \cup Variants

\* the orchestrating layer hands the user's message to the parser
Parse ==
    /\ ~parsed.called
    /\ orch.pc = "idle"
    /\ parsed' = parse_direct_warehouse_command(message)
    /\ UNCHANGED <<robots, items, last, steps, moves, placedY, inserted, lock, threads,
                   held, message, orch>>

InitParse ==
    /\ robots = SeedRobots
    /\ items = SeedItems
    /\ last = NoLast
    /\ steps = 0
    /\ moves = 0
    /\ placedY = NoPlaced
    /\ inserted = StackedIds(SeedItems)
    /\ lock = NoThread
    /\ threads = [t \in Threads |-> IdleThread]
    /\ held = NoHeld
    /\ message \in Messages
    /\ parsed = NotParsed
    /\ orch = IdleOrch

NextParse == Parse

SpecParse == InitParse /\ [][NextParse]_vars

(***************************************************************************)
(* The orchestrator's tool run_warehouse_command                           *)
(* (agents/warehouse/orchestrator_agent.py): it takes a snapshot, runs the *)
(* executor, takes a second snapshot and runs the verifier on the two.     *)
(* SpecOrch gives it the command the parser reads from the user's message  *)
(* and lets another caller of the executor (the HTTP endpoint's UI, a      *)
(* sub-agent's tool) run a command at any point, also between the tool's   *)
(* own command and its second snapshot.  orch.runs counts the tool's calls *)
(* of the executor.                                                        *)
(***************************************************************************)
\* robot_key, action_key, direction_key, item_id_clean, stack_id_clean
tool_args(c) ==
    [c EXCEPT
       !.robot = IF c.robot = None THEN "" ELSE StripLower(c.robot),
       !.action = normal_action(c.action),
       !.direction = IF Truthy(c.direction) /\ StripLower(c.direction) # ""
                     THEN StripLower(c.direction) ELSE None,
       !.item_id = IF Truthy(c.item_id) /\ Strip(c.item_id) # "" THEN Strip(c.item_id) ELSE None,
       !.stack_id = IF Truthy(c.stack_id) /\ Strip(c.stack_id) # ""
                    THEN Strip(c.stack_id) ELSE None]

OrchMessages ==
    { <<"ugv", "east">>, <<"move", "uav", "north">>, <<"pick", "up", "item-1">>,
      <<"ugv", "to", "10", "10">>, <<"arm", "pick", "stack-1">>,
      <<"put", "item-1", "at", "10", "5">>, <<"move", "towards", "arm">> }

\* commands of the other caller
OtherCmds ==
    { Cmd("ugv", "move", "north", None, None, NoCoord),
      Cmd("uav", "move", "east", None, None, NoCoord),
      Cmd("ugv", "pick", None, "item-2", None, NoCoord),
      Cmd("ugv", "drop", None, "item-1", None, <<10 * Unit, NoNum, 10 * Unit>>),
      Cmd("arm", "move", "west", None, None, NoCoord) }

\* state_before = get_state(); out = execute_warehouse_command(...);
\* a ValueError is returned as "Command failed"
ToolExecute ==
    /\ parsed.called
    /\ parsed.match
    /\ orch.pc = "idle"
    /\ \E out \in {execute_warehouse_command(robots, items, tool_args(parsed.cmd))} :
          /\ robots' = out.robots
          /\ items' = out.items
          /\ orch' = [pc |-> IF out.ok THEN "executed" ELSE "returned",
                      cmd |-> tool_args(parsed.cmd), before |-> robots, runs |-> 1,
                      wrote |-> out.robots # robots \/ out.items # items,
                      verified |-> None,
                      report |-> IF out.ok THEN None ELSE "Command failed"]
    /\ UNCHANGED <<History, lock, threads, held, message, parsed>>

\* arguments the model chooses for the tool itself
ToolCmds ==
    { Cmd("ugv", "move", "east", None, None, <<12 * Unit, NoNum, 5 * Unit>>),
      Cmd(" UGV", " Move ", " North", None, None, NoCoord),
      Cmd("ugv", "pick", None, "item-1 ", None, NoCoord),
      Cmd("arm", "pick_from_stack", None, None, " stack-1", NoCoord),
      Cmd("uav", "move", "up", None, None, NoCoord) }

\* the same first half of the tool, called with arguments of the model's choice
ToolCall ==
    /\ ~parsed.called
    /\ orch.pc = "idle"
    /\ \E c \in ToolCmds :
         \E out \in {execute_warehouse_command(robots, items, tool_args(c))} :
          /\ robots' = out.robots
          /\ items' = out.items
          /\ orch' = [pc |-> IF out.ok THEN "executed" ELSE "returned",
                      cmd |-> tool_args(c), before |-> robots, runs |-> 1,
                      wrote |-> out.robots # robots \/ out.items # items,
                      verified |-> None,
                      report |-> IF out.ok THEN None ELSE "Command failed"]
    /\ UNCHANGED <<History, lock, threads, held, message, parsed>>

\* state_after = get_state(); ok, reason = verify_warehouse_state_after_command(...);
\* the tool returns success = False when not ok, else the reply
ToolVerify ==
    /\ orch.pc = "executed"
    /\ \E v \in {verify_warehouse_state_after_command(orch.cmd, orch.before, robots, items)} :
          orch' = [orch EXCEPT
                     !.pc = "returned",
                     !.verified = IF v.ok THEN "ok" ELSE "failed",
                     !.report = IF v.ok THEN "success" ELSE "State verification failed"]
    /\ UNCHANGED <<robots, items, History, lock, threads, held, message, parsed>>

\* another caller's command
OtherCaller ==
    /\ \E c \in OtherCmds : Execute(c)

InitOrch ==
    /\ robots = SeedRobots
    /\ items = SeedItems
    /\ last = NoLast
    /\ steps = 0
    /\ moves = 0
    /\ placedY = NoPlaced
    /\ inserted = StackedIds(SeedItems)
    /\ lock = NoThread
    /\ threads = [t \in Threads |-> IdleThread]
    /\ held = NoHeld
    /\ message \in OrchMessages
    /\ parsed = NotParsed
    /\ orch = IdleOrch

NextOrch == Parse \/ ToolExecute \/ ToolCall \/ ToolVerify \/ OtherCaller

SpecOrch == InitOrch /\ [][NextOrch]_vars

(***************************************************************************)
(* Properties.  They read the store directly: the held item is decoded     *)
(* from current_task, positions are compared with the bounds and the       *)
(* tolerance as the data model states them.                                *)
(***************************************************************************)
RobotIds == {"uav-1", "ugv-1", "arm-1"}

RobotOf(rs, rid) == rs[CHOOSE i \in 1..Len(rs) : rs[i].id = rid]

ItemOf(its, id) == its[CHOOSE i \in 1..Len(its) : its[i].id = id]

ItemIds(its) == {its[i].id : i \in 1..Len(its)}

\* the item a robot record references as held, None when it holds nothing
HeldItem(r) ==
    IF Len(r.current_task) = 2 /\ r.current_task[1] \in {"carrying_", "holding_"}
    THEN r.current_task[2]
    ELSE None

Holders(rs, id) == {rid \in RobotIds : HeldItem(RobotOf(rs, rid)) = id}

Result(c) == execute_warehouse_command(robots, items, c)

\* C1: a command the executor rejects has written nothing: the store it
\* leaves equals the store it found, for every command in every state.
C1_RejectedIsNoOp ==
    \A c \in Commands :
        LET out == Result(c)
        IN  ~out.ok => out.robots = robots /\ out.items = items

\* a loaded ground robot is refused a move by the collision check, the last
\* check of the move branch
C1_Witness ==
    /\ HeldItem(RobotOf(robots, "ugv-1")) # None
    /\ \E c \in MoveCmds :
           Result(c).err = "Would collide with a robot. Choose another position."

\* C2: no item is referenced as held by more than one robot.
C2_OneHolderPerItem ==
    \A id \in ItemIds(items) : Cardinality(Holders(robots, id)) <= 1

\* the arm holds an item the ground robot then asks to pick, and is refused
C2_Witness ==
    /\ HeldItem(RobotOf(robots, "arm-1")) = "item-3"
    /\ Result(Cmd("ugv", "pick", None, "item-3", None, NoCoord)).err
         = "Item is already held. It must be released first."

\* C3: every held item is at exactly the position of the robot holding it.
C3_HeldItemAtHolder ==
    \A rid \in RobotIds :
        LET r == RobotOf(robots, rid)
        IN  HeldItem(r) # None => ItemOf(items, HeldItem(r)).position = r.position

\* C4: no item both has a stack_id and is held by a robot.
C4_NotStackedAndHeld ==
    \A id \in ItemIds(items) :
        ItemOf(items, id).stack_id # None => Holders(robots, id) = {}

\* the arm took an item from a stack, moved with it and placed it on a stack
C4_Witness ==
    /\ last.cmd.action = "place_on_stack"
    /\ moves > 0
    /\ ItemOf(items, last.cmd.item_id).stack_id = last.cmd.stack_id
    /\ RobotOf(robots, "arm-1").position # SeedRobots[3].position

CollisionChecked == {"move", "drop", "pick_from_stack", "place_on_stack"}

\* some robot other than rid stands closer than 2.0 to point p
NearOther(rs, rid, p) ==
    \E o \in RobotIds \ {rid} :
        dist2(RobotOf(rs, o).position, p) < (2 * Unit) * (2 * Unit)

\* C5: move, drop, pick_from_stack and place_on_stack never bring the robot
\* to a point closer than 2.0 to another robot: whenever the target (the
\* given x, z of a drop or of an absolute move, and in every case the point
\* the accepted command takes the robot to) is that close, the command is
\* rejected and the store is unchanged.
C5_CollisionRejected ==
    \A c \in Commands :
        LET out == Result(c)
            rid == id_map(StripLower(c.robot))
        IN  c.action \in CollisionChecked /\ rid # None =>
              /\ out.ok => ~NearOther(robots, rid, out.reply.position)
              /\ (c.action = "drop" /\ c.x # NoNum /\ c.z # NoNum
                    /\ NearOther(robots, rid, <<c.x, 0, c.z>>)) => ~out.ok
              /\ (c.action = "move" /\ c.x # NoNum /\ c.y # NoNum /\ c.z # NoNum
                    /\ NearOther(robots, rid, <<c.x, c.y, c.z>>)) => ~out.ok
              /\ ~out.ok => out.robots = robots /\ out.items = items

\* the ground robot carries an item and its drop next to the arm is refused
C5_Witness ==
    /\ HeldItem(RobotOf(robots, "ugv-1")) = "item-1"
    /\ LET c == Cmd("ugv", "drop", None, "item-1", None, <<24 * Unit, NoNum, 10 * Unit>>)
       IN  /\ NearOther(robots, "ugv-1", <<c.x, 0, c.z>>)
           /\ Result(c).err = "Cannot drop: position occupied. Choose another location."

InBox(p) ==
    /\ 0 <= p[1] /\ p[1] <= 50 * Unit
    /\ 0 <= p[2] /\ p[2] <= 10 * Unit
    /\ 0 <= p[3] /\ p[3] <= 30 * Unit

\* C6: every robot position and every item position is inside the warehouse
\* box, also after pick and pick_from_stack moved the robot unchecked.
C6_PositionsInBounds ==
    /\ \A i \in 1..Len(robots) : InBox(robots[i].position)
    /\ \A i \in 1..Len(items) : InBox(items[i].position)

\* the arm was taken above the floor by a pick_from_stack
C6_Witness ==
    /\ last.cmd.action = "pick_from_stack"
    /\ RobotOf(robots, "arm-1").position[2] > 0

\* the (x, z) displacement the data model gives each direction
C7Step(d) ==
    CASE d = "north" -> <<0, 0 - 5 * Unit>>
      [] d = "south" -> <<0, 5 * Unit>>
      [] d = "east"  -> <<5 * Unit, 0>>
      [] d = "west"  -> <<0 - 5 * Unit, 0>>

\* C7: an accepted move by direction takes the robot from (x, y, z) to
\* (x + dx, h, z + dz), h being 0 for the ground robot, 5 for the aerial
\* robot and y for the arm.
C7_DirectionalMove ==
    [][ (moves' = moves + 1 /\ last'.cmd.direction # None
           /\ (last'.cmd.x = NoNum \/ last'.cmd.z = NoNum)) =>
          LET rid  == last'.reply.robot_id
              pre  == RobotOf(robots, rid).position
              post == RobotOf(robots', rid).position
              d    == C7Step(last'.cmd.direction)
              h    == IF rid = "ugv-1" THEN 0
                      ELSE IF rid = "uav-1" THEN 5 * Unit ELSE pre[2]
          IN  post = <<pre[1] + d[1], h, pre[3] + d[2]>> ]_vars

\* the arm made a move by direction from above the floor and kept its height
C7_Witness ==
    /\ last.cmd.action = "move"
    /\ last.cmd.direction \in {"north", "south", "east", "west"}
    /\ last.cmd.x = NoNum
    /\ last.reply.robot_id = "arm-1"
    /\ last.reply.position[2] > 0

\* C8: when the ground robot, having picked an item, drops it at (x, z), the
\* item is at (x, 0, z) with no stack_id and the robot is idle with no task.
C8_PickThenDrop ==
    last.cmd.action = "drop" =>
        LET it  == ItemOf(items, last.cmd.item_id)
            ugv == RobotOf(robots, "ugv-1")
        IN  /\ it.stack_id = None
            /\ it.position = <<last.cmd.x, 0, last.cmd.z>>
            /\ ugv.status = "idle"
            /\ ugv.current_task = NoTask

\* a drop after a pick and an accepted move
C8_Witness ==
    /\ last.cmd.action = "drop"
    /\ moves > 0
    /\ ItemOf(items, last.cmd.item_id).position = <<10 * Unit, 0, 5 * Unit>>

\* an accepted place_on_stack is being taken
Placing == steps' = steps + 1 /\ last'.cmd.action = "place_on_stack"

\* C9 as stated: every accepted place_on_stack onto a stack gives a y
\* strictly greater than the previous accepted place_on_stack onto it.
C9_AlwaysHigher ==
    [][ Placing =>
          LET s == last'.cmd.stack_id
          IN  placedY[s].y # NoNum => placedY'[s].y > placedY[s].y ]_vars

\* C9, amended: an accepted place_on_stack onto a stack gives a y strictly
\* greater than the previous accepted place_on_stack onto it, provided no
\* item was taken off that stack in between.
C9_HigherWhileNoneTakenOff ==
    [][ Placing =>
          LET s == last'.cmd.stack_id
          IN  placedY[s].run > 0 => placedY'[s].y > placedY[s].y ]_vars

\* two placements onto one stack with nothing taken off it in between
C9_Witness == \E s \in StackIds : placedY[s].run >= 2

\* the members of stack s
Members(its, s) == {its[i].id : i \in {j \in 1..Len(its) : its[j].stack_id = s}}

\* the member of stack s that joined its stack last
LastPlaced(its, s) ==
    inserted[CHOOSE k \in 1..Len(inserted) :
                /\ inserted[k] \in Members(its, s)
                /\ \A m \in (k + 1)..Len(inserted) : inserted[m] \notin Members(its, s)]

\* C10: pick_from_stack on a stack of two or more members takes the member
\* most recently placed onto that stack.
C10_TakesLastPlaced ==
    [][ (steps' = steps + 1 /\ last'.cmd.action = "pick_from_stack"
           /\ Cardinality(Members(items, last'.cmd.stack_id)) >= 2) =>
          last'.reply.what = LastPlaced(items, last'.cmd.stack_id) ]_vars

\* C11: for every command the executor accepts, the verifier given the same
\* arguments, the snapshot before the command and the snapshot after it
\* reports success.
C11_AcceptedIsVerified ==
    \A c \in Commands :
        LET out == Result(c)
        IN  out.ok =>
              verify_warehouse_state_after_command(c, robots, out.robots, out.items).ok

\* the item named by a pick, as the executor reads it
Named(c) == IF c.item_id = None THEN None ELSE Strip(c.item_id)

\* C12: a pick of an item whose stack_id is set is rejected, whichever robot
\* issues it, and leaves the store unchanged.
C12_StackedPickRejected ==
    \A c \in PickCmds :
        (Named(c) \in ItemIds(items) /\ ItemOf(items, Named(c)).stack_id # None) =>
            LET out == Result(c)
            IN  ~out.ok /\ out.robots = robots /\ out.items = items

\* C13: drop and place_on_stack are rejected, with the store unchanged,
\* unless the commanded robot's current_task references exactly the named
\* item; when they are accepted the robot ends idle with no current_task.
C13_ReleaseNeedsNamedItem ==
    \A c \in DropCmds \cup PlaceOnStackCmds :
        LET out == Result(c)
            rid == id_map(StripLower(c.robot))
        IN  /\ out.ok =>
                  /\ HeldItem(RobotOf(robots, rid)) = Named(c)
                  /\ RobotOf(out.robots, rid).current_task = NoTask
                  /\ RobotOf(out.robots, rid).status = "idle"
            /\ ~out.ok => out.robots = robots /\ out.items = items

\* the arm placed what it held, and the ground robot, carrying one item, is
\* refused the drop of another
C13_Witness ==
    /\ last.cmd.action = "place_on_stack"
    /\ RobotOf(robots, "arm-1").status = "idle"
    /\ HeldItem(RobotOf(robots, "ugv-1")) = "item-1"
    /\ Result(Cmd("ugv", "drop", None, "item-2", None, <<10 * Unit, NoNum, 5 * Unit>>)).err
         = "UGV is not carrying the item."

\* C14: each robot references at most one held item, and every pick and
\* pick_from_stack issued by a robot that holds an item is rejected.
C14_NoSecondItem ==
    /\ \A i \in 1..Len(robots) :
           \/ robots[i].current_task = NoTask
           \/ /\ Len(robots[i].current_task) = 2
              /\ robots[i].current_task[1] \in {"carrying_", "holding_"}
              /\ robots[i].current_task[2] \in ItemIds(items)
    /\ \A c \in PickCmds \cup PickFromStackCmds :
           LET rid == id_map(StripLower(c.robot))
           IN  (rid # None /\ HeldItem(RobotOf(robots, rid)) # None) => ~Result(c).ok

\* the ground robot carries item-1 and is refused the pick of item-2, which
\* lies free on the floor
C14_Witness ==
    /\ HeldItem(RobotOf(robots, "ugv-1")) = "item-1"
    /\ ItemOf(items, "item-2").stack_id = None
    /\ Holders(robots, "item-2") = {}
    /\ Result(Cmd("ugv", "pick", None, "item-2", None, NoCoord)).err
         = "UGV is already carrying an item. Drop it first before picking another item."

AlreadyHeld == "Item is already held. It must be released first."

\* a pick of an item some other robot holds
PickOfHeld(c) ==
    LET rid == id_map(StripLower(c.robot))
    IN  /\ rid # None
        /\ Named(c) \in ItemIds(items)
        /\ Holders(robots, Named(c)) # {}
        /\ rid \notin Holders(robots, Named(c))

\* C15 as stated: a pick of an item that another robot holds is rejected
\* with the "already held by" error and leaves the store unchanged.
C15_AlreadyHeldError ==
    \A c \in PickCmds :
        PickOfHeld(c) =>
            LET out == Result(c)
            IN  out.err = AlreadyHeld /\ out.robots = robots /\ out.items = items

\* C15, amended: a pick of an item that another robot holds is rejected and
\* leaves the store unchanged; the error is the "already held by" error when
\* the ground robot issues the pick while carrying nothing, the wrong-robot
\* error when another robot issues it, and the "already carrying" error when
\* the ground robot carries something.
C15_RejectedWhileHeld ==
    \A c \in PickCmds :
        PickOfHeld(c) =>
            LET out == Result(c)
                rid == id_map(StripLower(c.robot))
            IN  /\ ~out.ok /\ out.robots = robots /\ out.items = items
                /\ out.err =
                      IF rid # "ugv-1" THEN "Only UGV can pick items from the floor."
                      ELSE IF HeldItem(RobotOf(robots, "ugv-1")) # None
                      THEN "UGV is already carrying an item. Drop it first before picking another item."
                      ELSE AlreadyHeld

\* the arm holds item-3 after a move, the ground robot carries nothing and
\* its pick of item-3 gets the "already held by" error
C15_Witness ==
    /\ HeldItem(RobotOf(robots, "arm-1")) = "item-3"
    /\ HeldItem(RobotOf(robots, "ugv-1")) = None
    /\ last.cmd.action = "move"
    /\ Result(Cmd("ugv", "pick", None, "item-3", None, NoCoord)).err = AlreadyHeld

\* the inputs that spell north, south, east or west
Cardinals == {"north", "south", "east", "west", " North"}

\* C16: a move given a direction outside north, south, east, west and no
\* absolute x and z is rejected with the error naming the allowed
\* directions, and the store is unchanged.
C16_InvalidDirectionRejected ==
    \A c \in MoveCmds :
        ( /\ c.robot \in {"uav", "ugv", "arm", "UGV "}
          /\ c.direction \notin Cardinals \cup {None, ""}
          /\ (c.x = NoNum \/ c.z = NoNum) ) =>
            LET out == Result(c)
            IN  /\ out.err = "direction must be one of: north, south, east, west"
                /\ out.robots = robots /\ out.items = items

\* the aerial robot has moved and is now refused the direction "up"
C16_Witness ==
    /\ last.cmd.action = "move"
    /\ last.reply.robot_id = "uav-1"
    /\ RobotOf(robots, "uav-1").position # SeedRobots[1].position
    /\ Result(Cmd("uav", "move", "up", None, None, NoCoord)).err
         = "direction must be one of: north, south, east, west"

\* C17: in every store, for every command body, the endpoint accepts the
\* command exactly when the executor accepts it, and on acceptance leaves the
\* same store and gives the same reply.
C17_EndpointEqualsExecutor ==
    \A c \in Commands :
        LET e == Result(c)
            h == warehouse_command(robots, items, c)
        IN  /\ h.ok = e.ok
            /\ e.ok => h.robots = e.robots /\ h.items = e.items /\ h.reply = e.reply

\* C18: every store operation runs entirely while its thread holds the
\* mutex, so no two store operations overlap, and no thread holds the mutex
\* outside a store operation.
C18_StoreOpsUnderMutex ==
    /\ \A t \in Threads : threads[t].inop => lock = t
    /\ \A t \in Threads : ~threads[t].inop => lock # t
    /\ \A t, u \in Threads : (threads[t].inop /\ threads[u].inop) => t = u

\* C19: the read-validate-write sequence of a call is not atomic.  A pick is
\* decided on its own snapshot alone: it goes on to its writes exactly when
\* that snapshot passes the checks, whatever other calls have written to the
\* store since, and it holds no mutex while it checks; so two picks by the
\* ground robot whose snapshots both show it free both commit.
C19_DecidedOnSnapshot ==
    \A t \in Threads :
        /\ threads[t].pc = "validate" => lock # t
        /\ (threads[t].cmd.action = "pick"
              /\ threads[t].pc \in {"write", "new_state", "done"}) =>
             LET out == execute_warehouse_command(threads[t].snap_rs, threads[t].snap_its,
                                                  threads[t].cmd)
             IN  (threads[t].result = "rejected") <=> ~out.ok

\* two picks of different floor items by the ground robot, both snapshots
\* taken before either call wrote, both committed and returned
C19_Witness ==
    /\ \A t \in Threads :
           /\ threads[t].pc = "done"
           /\ threads[t].result = "ok"
           /\ threads[t].cmd.robot = "ugv"
           /\ threads[t].cmd.action = "pick"
           /\ threads[t].snap_rs = SeedRobots
           /\ threads[t].snap_its = SeedItems
    /\ threads[1].cmd.item_id # threads[2].cmd.item_id

\* C20: an accepted place_on_stack onto a stack S of n members puts the item
\* at (bx, 0.5 * (n + 1), bz) with stack_id S, (bx, bz) being the (x, z) of a
\* member of S when n > 0 and (25, 10) when n = 0.
C20_PlacedAtLevel ==
    \A c \in PlaceOnStackCmds :
        LET out == Result(c)
        IN  out.ok =>
              LET S  == Strip(c.stack_id)
                  n  == Cardinality(Members(items, S))
                  it == ItemOf(out.items, Named(c))
              IN  /\ it.stack_id = S
                  /\ 2 * it.position[2] = Unit * (n + 1)
                  /\ IF n = 0
                     THEN it.position[1] = 25 * Unit /\ it.position[3] = 10 * Unit
                     ELSE \E m \in Members(items, S) :
                              /\ ItemOf(items, m).position[1] = it.position[1]
                              /\ ItemOf(items, m).position[3] = it.position[3]

\* the arm placed a third item on a stack of two standing away from the
\* default base
C20_Witness ==
    /\ last.cmd.action = "place_on_stack"
    /\ Cardinality(Members(items, last.cmd.stack_id)) = 3
    /\ ItemOf(items, last.cmd.item_id).position = <<40 * Unit, 3, 20 * Unit>>

(***************************************************************************)
(* C21: upsert_robot on an existing robot changes exactly the fields that  *)
(* were given: a field left out (None for type, position and orientation,  *)
(* the sentinel for status and current_task) keeps its value, an explicit  *)
(* None for status or current_task clears it, every other robot and the    *)
(* items stay as they were; update_robot_position changes the position     *)
(* only.                                                                   *)
(***************************************************************************)
Existing(id) == \E i \in 1..Len(robots) : robots[i].id = id

C21_OnlyGivenFieldsChange ==
    [][(last = NoLast /\ last' # NoLast /\ Existing(last'.cmd.robot_id)) =>
        LET c   == last'.cmd
            idx == CHOOSE i \in 1..Len(robots) :
                      robots[i].id = c.robot_id /\ \A j \in 1..(i - 1) : robots[j].id # c.robot_id
            r   == robots[idx]
        IN  /\ Len(robots') = Len(robots)
            /\ \A i \in 1..Len(robots) : i # idx => robots'[i] = robots[i]
            /\ items' = items
            /\ robots'[idx] =
                  [id |-> r.id,
                   type |-> IF c.robot_type = None THEN r.type ELSE c.robot_type,
                   position |-> IF c.position = NoPos THEN r.position ELSE c.position,
                   orientation |-> IF c.orientation = NoPos THEN r.orientation
                                   ELSE c.orientation,
                   status |-> IF c.status = _UNSET THEN r.status ELSE c.status,
                   current_task |-> IF c.current_task = UnsetTask THEN r.current_task
                                    ELSE c.current_task]
            /\ c.op = "update_robot_position" =>
                  robots'[idx] = [r EXCEPT !.position = c.position]
    ]_vars

\* the loaded ground robot after upsert_robot(current_task=None) with the
\* status left out: the task is cleared, the status is still "carrying"
C21_Witness ==
    /\ last # NoLast
    /\ last.cmd.op = "upsert_robot"
    /\ last.cmd.robot_id = "ugv-1"
    /\ last.cmd.current_task = NoTask
    /\ last.cmd.status = _UNSET
    /\ last.reply.current_task = NoTask
    /\ last.reply.status = "carrying"
    /\ last.reply.orientation = <<0, 90, 0>>

StoreWrites == {"update_robot_position", "update_robot_status", "upsert_item", "remove_item"}

C23_IndependentCopy ==
    [][/\ (last'.cmd.op \in StoreWrites /\ steps' = steps + 1) =>
            \A k \in 1..Len(held) :
                Contents(held'[k], robots', items') = Contents(held[k], robots, items)
       /\ (last'.cmd.op = "assign" /\ steps' = steps + 1) =>
            robots' = robots /\ items' = items
    ]_vars

\* a snapshot of the seed kept across a write, then assigned into: the store
\* has the written robot, the snapshot has neither the write nor its items
C23_Witness ==
    /\ last.cmd.op = "assign"
    /\ Len(held) >= 1
    /\ held[1].what = "state"
    /\ Contents(held[1], robots, items).robots[1].status = "edited"
    /\ robots[1].status = "idle"
    /\ robots # SeedRobots
    /\ Len(items) = 3

(***************************************************************************)
(* C24: for a move the verifier passes exactly when the robot's position   *)
(* after the command is inside the warehouse and, with x and z given, is   *)
(* (x, y, z), y defaulting to 0 for the ground robot, 5 for the aerial     *)
(* robot and the height before for the arm, and, with a direction given,   *)
(* is the position before displaced by the 5-unit step of that direction   *)
(* (at the robot's height convention).  It is stated for every move        *)
(* command of a known robot, with the state before the command as          *)
(* prev_state and either that state or the executor's result as state.     *)
(***************************************************************************)
KnownRobotMoves == {c \in MoveCmds : id_map(StripLower(c.robot)) # None}

C24Height(rid, pre) ==
    IF rid = "ugv-1" THEN 0 ELSE IF rid = "uav-1" THEN 5 * Unit ELSE pre[2]

C24Passes(c, rid, pre, pos) ==
    /\ InBox(pos)
    /\ (c.x # NoNum /\ c.z # NoNum) =>
          pos = <<c.x, IF c.y # NoNum THEN c.y ELSE C24Height(rid, pre), c.z>>
    /\ Truthy(c.direction) =>
          /\ StripLower(c.direction) \in {"north", "south", "east", "west"}
          /\ LET d == C7Step(StripLower(c.direction))
             IN  pos = <<pre[1] + d[1], C24Height(rid, pre), pre[3] + d[2]>>

C24_MovePassCondition ==
    \A c \in KnownRobotMoves :
        \A post \in {robots, Result(c).robots} :
            LET rid == id_map(StripLower(c.robot))
                pre == RobotOf(robots, rid).position
                pos == RobotOf(post, rid).position
            IN  verify_warehouse_state_after_command(c, robots, post, items).ok
                  <=> C24Passes(c, rid, pre, pos)

(***************************************************************************)
(* C25: for a drop by the ground robot that names an item the verifier     *)
(* passes exactly when, in the state it is given, the robot is not         *)
(* carrying that item and, with x and z given, the item is in the list at  *)
(* (x, 0, z) with no stack_id.  It is stated for every such drop command,  *)
(* with the state before the command as prev_state and either that state   *)
(* or the executor's result as state.                                      *)
(***************************************************************************)
NamedDrops == {c \in DropCmds : id_map(StripLower(c.robot)) = "ugv-1" /\ Truthy(c.item_id)}

C25Passes(c, rs, its) ==
    /\ HeldItem(RobotOf(rs, "ugv-1")) # Strip(c.item_id)
    /\ (c.x # NoNum /\ c.z # NoNum) =>
          \E i \in 1..Len(its) :
              /\ its[i].id = Strip(c.item_id)
              /\ its[i].position = <<c.x, 0, c.z>>
              /\ its[i].stack_id = None

C25_DropPassCondition ==
    \A c \in NamedDrops :
        \A post \in {[robots |-> robots, items |-> items],
                      [robots |-> Result(c).robots, items |-> Result(c).items]} :
            verify_warehouse_state_after_command(c, robots, post.robots, post.items).ok
              <=> C25Passes(c, post.robots, post.items)

(***************************************************************************)
(* C26: the parser returns no match for a message that asks for movement   *)
(* toward a robot named in it ("toward(s) ... <robot>", "to <robot>"), for *)
(* a message with a scanning or mapping phrase (scan, scanning, mapping,   *)
(* "map <something>", "find item(s)"), and for a message that, lower-cased *)
(* and without its polite opening and closing punctuation, is an instance  *)
(* of none of the six command shapes.                                      *)
(***************************************************************************)
RobotNames == {"ugv", "uav", "arm", "ugv-1", "uav-1", "arm-1"}

TowardRobot(m) ==
    \/ \E i \in 1..Len(m), j \in 1..Len(m) :
          i < j /\ m[i] \in {"toward", "towards"} /\ m[j] \in RobotNames
    \/ \E i \in 1..(Len(m) - 1) : m[i] = "to" /\ m[i + 1] \in RobotNames

ScanOrMap(m) ==
    \E i \in 1..Len(m) :
        \/ m[i] \in {"scan", "scanning", "mapping"}
        \/ m[i] = "map" /\ i < Len(m)
        \/ m[i] = "find" /\ i < Len(m) /\ m[i + 1] \in {"item", "items"}

AbsoluteNumbers(m) ==
    LET k == CHOOSE i \in 1..Len(m) : m[i] = "to"
    IN  SubSeq(m, k + 1, Len(m))

AbsoluteRobot(m) ==
    LET k == CHOOSE i \in 1..Len(m) : m[i] \in RobotWords
    IN  IF m[k] \in {"ugx", "agv"} THEN "ugv" ELSE m[k]

C27Value(tok) ==
    CASE tok = "10" -> 10 * Unit
      [] tok = "5"  -> 5 * Unit
      [] tok = "2"  -> 2 * Unit

C27_ThirdNumberIsY ==
    (parsed.called /\ message \in ShapeMoveAbsolute) =>
        LET n == AbsoluteNumbers(message)
        IN  /\ parsed.match
            /\ parsed.cmd.robot = AbsoluteRobot(message)
            /\ parsed.cmd.action = "move"
            /\ parsed.cmd.x = C27Value(n[1])
            /\ parsed.cmd.z = C27Value(n[2])
            /\ parsed.cmd.y = IF Len(n) = 3 THEN C27Value(n[3]) ELSE NoNum

C27_ThreeNumbersAreXYZ ==
    (parsed.called /\ message \in ShapeMoveAbsolute) =>
        LET n == AbsoluteNumbers(message)
        IN  /\ parsed.match
            /\ parsed.cmd.robot = AbsoluteRobot(message)
            /\ parsed.cmd.action = "move"
            /\ parsed.cmd.direction = None
            /\ parsed.cmd.item_id = None
            /\ parsed.cmd.stack_id = None
            /\ parsed.cmd.x = C27Value(n[1])
            /\ Len(n) = 2 => parsed.cmd.z = C27Value(n[2]) /\ parsed.cmd.y = NoNum
            /\ Len(n) = 3 => parsed.cmd.y = C27Value(n[2]) /\ parsed.cmd.z = C27Value(n[3])

\* "move the arm to 10 2 5" was parsed: x = 10, y = 2, z = 5
C27_Witness ==
    /\ parsed.called
    /\ message = <<"move", "the", "arm", "to", "10", "2", "5">>
    /\ parsed.match
    /\ parsed.cmd.x = 10 * Unit
    /\ parsed.cmd.y = 2 * Unit
    /\ parsed.cmd.z = 5 * Unit

(***************************************************************************)
(* C28: when the verifier fails for the command parsed from the message,   *)
(* the command is run through the executor a second time and the tool      *)
(* returns what that second run gave, never the verification failure.      *)
(***************************************************************************)
C28_SelfHeal ==
    (orch.pc = "returned" /\ parsed.match /\ orch.verified = "failed")
      => (orch.runs = 2 /\ orch.report # "State verification failed")

(***************************************************************************)
(* C29: after any sequence of accepted commands from the seed state every  *)
(* two distinct robots are at least the collision tolerance (2.0) apart,   *)
(* also after a pick has put the ground robot at the item's position.      *)
(***************************************************************************)
C29_RobotsApart ==
    \A i, j \in 1..Len(robots) :
        i # j => dist2(robots[i].position, robots[j].position) >= tolerance * tolerance

(***************************************************************************)
(* C30: a command whose action is not empty and is none of move, pick,     *)
(* drop, pick_from_stack, place_on_stack is rejected with an error and     *)
(* leaves robots and items as they were.                                   *)
(***************************************************************************)
ActionNames == {"move", "pick", "drop", "pick_from_stack", "place_on_stack"}

UnknownActionCmds ==
    { Cmd(ra[1], ra[2], ra[3], "item-1", "stack-1", ra[4]) :
        ra \in {"ugv", "uav", "arm"} \X {"fly", "scan", " Teleport ", "picks"}
               \X {"north", "east", None} \X (MoveCoordInputs \cup {NoCoord}) }

C30_UnknownActionRejected ==
    \A c \in UnknownActionCmds :
        /\ StripLower(c.action) \notin ActionNames \cup {""}
        /\ ~Result(c).ok
        /\ Result(c).err # None
        /\ Result(c).robots = robots
        /\ Result(c).items = items

(***************************************************************************)
(* C31: when run_warehouse_command returns success = False (the executor   *)
(* rejected the command, or the verification failed) the command has       *)
(* written nothing: the tool never reports failure for a command whose     *)
(* writes were committed.                                                  *)
(***************************************************************************)
C31_FailureIsNoOp ==
    (orch.pc = "returned" /\ orch.report # "success") => ~orch.wrote

(***************************************************************************)
(* C32: the verifier detects a command that was not applied.  In every     *)
(* state S, for every command the executor would accept in S and that      *)
(* would change the commanded robot's position or what it holds, the       *)
(* verifier called with the pre-state S and the post-state S fails.        *)
(***************************************************************************)
C32Commanded(rs, c) == rs[find_index(rs, id_map(StripLower(c.robot)))]

C32Changes(c) ==
    /\ Result(c).ok
    /\ \/ C32Commanded(Result(c).robots, c).position # C32Commanded(robots, c).position
       \/ C32Commanded(Result(c).robots, c).current_task # C32Commanded(robots, c).current_task

C32_UnappliedDetected ==
    \A c \in Commands \cup UnknownActionCmds :
        C32Changes(c) => ~verify_warehouse_state_after_command(c, robots, robots, items).ok

(***************************************************************************)
(* C33: when commands to different robots run concurrently, their store    *)
(* operations interleaved in any order (a ground-robot pick together with  *)
(* an arm pick_from_stack or place_on_stack), at most one robot holds a    *)
(* given item in every state.                                              *)
(***************************************************************************)
C33_OneHolderConcurrently ==
    \A id \in ItemIds(items) : Cardinality(Holders(robots, id)) <= 1

(***************************************************************************)
(* C34: every snapshot a caller obtains from get_state() while another     *)
(* command is executing satisfies the data-model invariants: a held item   *)
(* is at its holder's position and no item is both stacked and held.  The  *)
(* writes that commit one command are never seen half-done.                *)
(***************************************************************************)
C34Consistent(rs, its) ==
    /\ \A rid \in RobotIds :
          HeldItem(RobotOf(rs, rid)) # None
            => ItemOf(its, HeldItem(RobotOf(rs, rid))).position = RobotOf(rs, rid).position
    /\ \A id \in ItemIds(its) :
          ItemOf(its, id).stack_id # None => Holders(rs, id) = {}

C34_SnapshotsConsistent ==
    \A t \in Threads :
        threads[t].pc \notin {"idle", "get_state"}
          => C34Consistent(threads[t].snap_rs, threads[t].snap_its)

(***************************************************************************)
(* C35: in sequential execution a robot that holds item X keeps holding X  *)
(* until its own drop of X (ground robot) or place_on_stack of X (arm) is  *)
(* accepted; a move, a rejected command or another robot's command never   *)
(* ends the hold.                                                          *)
(***************************************************************************)
C35Release(rid, x) ==
    /\ steps' = steps + 1
    /\ last'.reply.robot_id = rid
    /\ last'.cmd.item_id = x
    /\ \/ rid = "ugv-1" /\ last'.cmd.action = "drop"
       \/ rid = "arm-1" /\ last'.cmd.action = "place_on_stack"

C35_HoldUntilRelease ==
    [][\A rid \in RobotIds :
          (HeldItem(RobotOf(robots, rid)) # None
             /\ HeldItem(RobotOf(robots', rid)) # HeldItem(RobotOf(robots, rid)))
            => C35Release(rid, HeldItem(RobotOf(robots, rid)))]_vars

\* the ground robot still carries its item after the arm has taken one and
\* a robot has moved
C35_Witness ==
    /\ HeldItem(RobotOf(robots, "ugv-1")) = "item-1"
    /\ HeldItem(RobotOf(robots, "arm-1")) = "item-3"
    /\ moves > 0
    /\ last.reply.verb = "moved"
    /\ last.reply.robot_id = "ugv-1"

(***************************************************************************)
(* C36: an accepted command leaves the robot ids and the item ids as they  *)
(* were (same entries, same order), changes no robot record but the        *)
(* commanded robot's and at most one item record.                          *)
(***************************************************************************)
C36Accepted == steps' # steps \/ moves' # moves

C36_FrameOfAccepted ==
    [][C36Accepted =>
         /\ Len(robots') = Len(robots)
         /\ Len(items') = Len(items)
         /\ \A i \in 1..Len(robots) :
               /\ robots'[i].id = robots[i].id
               /\ robots'[i] # robots[i] => robots[i].id = last'.reply.robot_id
         /\ \A i \in 1..Len(items) : items'[i].id = items[i].id
         /\ Cardinality({i \in 1..Len(items) : items'[i] # items[i]}) <= 1]_vars

\* the ground robot has moved while carrying an item and has dropped it:
\* the robot and one item differ from the seed state, nothing else does
C36_Witness ==
    /\ last.cmd.action = "drop"
    /\ moves > 0
    /\ RobotOf(robots, "ugv-1") # RobotOf(SeedRobots, "ugv-1")
    /\ ItemOf(items, "item-1") # ItemOf(SeedItems, "item-1")
    /\ ItemOf(items, "item-2") = ItemOf(SeedItems, "item-2")
    /\ RobotOf(robots, "arm-1") = RobotOf(SeedRobots, "arm-1")

(***************************************************************************)
(* C37: the members of each stack are at pairwise distinct heights in      *)
(* every state reached from a state where they are, also after a           *)
(* pick_from_stack followed by a place_on_stack onto a stack of two or     *)
(* more members.                                                           *)
(***************************************************************************)
C37_DistinctHeights ==
    \A i, j \in 1..Len(items) :
        (i # j /\ items[i].stack_id # None /\ items[i].stack_id = items[j].stack_id)
          => items[i].position[2] # items[j].position[2]

(***************************************************************************)
(* C38: after any sequence of executor commands from the seed state, a     *)
(* robot's status is "working" exactly when its current_task names a held  *)
(* item and "idle" otherwise; the status "moving" is never stored.         *)
(***************************************************************************)
C38_StatusFollowsTask ==
    \A i \in 1..Len(robots) :
        /\ robots[i].status \in {"idle", "working"}
        /\ robots[i].status = "working"
             <=> (Len(robots[i].current_task) = 2
                    /\ robots[i].current_task[1] \in {"carrying_", "holding_"}
                    /\ robots[i].current_task[2] \in ItemIds(items))

\* the arm is working with an item in hand while the ground robot, having
\* dropped its item and moved, is idle again
C38_Witness ==
    /\ RobotOf(robots, "arm-1").status = "working"
    /\ RobotOf(robots, "ugv-1").status = "idle"
    /\ RobotOf(robots, "ugv-1").position # RobotOf(SeedRobots, "ugv-1").position
    /\ ItemOf(items, "item-1").position # ItemOf(SeedItems, "item-1").position
    /\ moves > 0

(***************************************************************************)
(* C39: under fair scheduling every command, snapshot and reset that has   *)
(* been issued completes (it returns or raises): the mutex is never taken  *)
(* by a thread that holds it, every acquisition is followed by a release,  *)
(* and no caller waits forever.                                            *)
(***************************************************************************)
C39_AllComplete ==
    \A t \in Threads : (threads[t].pc # "idle") ~> (threads[t].pc = "done" /\ lock # t)

\* a reset and a command have both completed, the command having been
\* accepted on a snapshot it took before the reset
C39_Witness ==
    /\ \A t \in Threads : threads[t].pc = "done"
    /\ lock = NoThread
    /\ \E t, u \in Threads :
          /\ threads[t].cmd.action = "reset_state"
          /\ threads[u].cmd.action = "pick"
          /\ threads[u].result = "ok"
          /\ threads[u].snap_rs = SeedRobots
          /\ HeldItem(RobotOf(robots, "ugv-1")) = "item-1"
====
